---- MODULE Spec2Model ----
(***************************************************************************)
(* Response parser / validator of the SEO keyword generator.               *)
(*                                                                         *)
(* Strings are sequences of one-character strings, so that trim,           *)
(* lastIndexOf, substring and the regular expressions of the source are    *)
(* computed on characters.  JavaScript values are tagged records (field t  *)
(* is the tag).                                                            *)
(***************************************************************************)
EXTENDS Integers, Sequences, FiniteSets, TLC

VARIABLES
    responseText,  \* response.text of the LLM call (both providers get the same text)
    pc,            \* position of generateKeywords (Gemini)
    strategy,      \* extraction strategy that produced jsonText (0: none yet)
    jsonText,      \* the local jsonText of generateKeywords
    parsedResult,  \* the local parsedResult of generateKeywords
    result,        \* value generateKeywords resolved with
    error,         \* error generateKeywords rejected with
    inner,         \* error thrown inside the try block of generateKeywords
    opc,           \* position of generateKeywordsWithOpenAI
    ojsonText,     \* the local jsonText of generateKeywordsWithOpenAI
    oparsedResult, \* the local parsedResult of generateKeywordsWithOpenAI
    oresult,       \* value generateKeywordsWithOpenAI resolved with
    oerror,        \* error generateKeywordsWithOpenAI rejected with
    doc,             \* the parsed document after the noise elements were removed
    elementsToScore, \* the elements the forEach of the selection runs over
    bestElement,     \* the local bestElement of handleFetchAndGenerate
    bestScore,       \* the local bestScore (a fraction <<numerator, denominator>>)
    selectPc,        \* position of the container selection
    selectError,     \* error thrown by the container selection
    blockTexts,      \* innerText of the block elements of bestElement, in document order
    innerText,       \* bestElement.innerText
    title,           \* the local title of handleFetchAndGenerate
    content,         \* the local content
    cleanedContent,  \* the local cleanedContent
    fetchedContent,  \* the local fetchedContent
    textPc,          \* position of the text extraction
    isLoading,          \* the state isLoading of the component
    uiError,            \* the state error of the component ("null" or a message)
    uiResult,           \* the state result of the component: 0 for null, else the
                        \* request whose generateKeywords value it holds
    articleContent,     \* the state articleContent (the text area)
    abortControllerRef, \* abortControllerRef.current: 0 for null, else the request
                        \* whose AbortController it holds
    requests,           \* the calls of handleFetchAndGenerate and handleSubmit
    llmTexts,           \* the article texts generateKeywords was called with
    revData,       \* the parsed value handed to the revisions of validateKeywordResult
    revVerdict,    \* what each revision returned for it ("none": not called yet)
    headings,      \* the h1 elements of the fetched document, in document order
    documentTitle,      \* doc.title
    titlePc,       \* position of the title extraction
    openaiClient,  \* the module variable openaiClient: null, or the client and the
                   \* apiKey it was constructed with
    clientCalls    \* the calls of generateKeywordsWithOpenAI: the apiKey argument,
                   \* the key of the client the call used, the error it threw

\* the state of the two provider functions
parserVars == <<responseText, pc, strategy, jsonText, parsedResult, result, error, inner,
                opc, ojsonText, oparsedResult, oresult, oerror>>

\* the state of the container selection (App.tsx)
selectVars == <<doc, elementsToScore, bestElement, bestScore, selectPc, selectError>>

\* the state of the text extraction (App.tsx)
textVars == <<blockTexts, innerText, title, content, cleanedContent,
              fetchedContent, textPc>>

\* the state of the component and of its requests (App.tsx)
uiVars == <<isLoading, uiError, uiResult, articleContent, abortControllerRef, requests,
           llmTexts>>

\* the state of the comparison of the validator revisions
revVars == <<revData, revVerdict>>

\* the document the title is taken from (App.tsx)
titleVars == <<headings, documentTitle, titlePc>>

\* the OpenAI client of the module (openaiService.ts)
clientVars == <<openaiClient, clientCalls>>

vars == <<parserVars, selectVars, textVars, uiVars, revVars, titleVars, clientVars>>

\* what an action of the provider functions leaves alone
notParserVars == <<selectVars, textVars, uiVars, revVars, titleVars, clientVars>>
\* what an action of the container selection leaves alone
notSelectVars == <<parserVars, textVars, uiVars, revVars, titleVars, clientVars>>
\* what an action of the text extraction leaves alone
notTextVars == <<parserVars, selectVars, uiVars, revVars, titleVars, clientVars>>
\* what an action of the component leaves alone
notUiVars == <<parserVars, selectVars, textVars, revVars, titleVars, clientVars>>
\* what a validator revision leaves alone
notRevVars == <<parserVars, selectVars, textVars, uiVars, titleVars, clientVars>>
\* what a call of the OpenAI provider leaves alone, as far as its client goes
notClientVars == <<parserVars, selectVars, textVars, uiVars, revVars, titleVars>>

-----------------------------------------------------------------------------
(* Bounds of the model *)

\* longest response text enumerated exhaustively over Alphabet
MaxTextLen == 3
\* array lengths tried around each limit of a category: limit-Slack .. limit+Slack
Slack == 1

-----------------------------------------------------------------------------
(* Characters and the String methods the parser uses *)

\* the character U+0060 (grave accent, "backtick"), which a TLA+ string cannot hold
BackTick == "U+0060"
Fence == <<BackTick, BackTick, BackTick>>
TagJson == <<"j", "s", "o", "n">>

\* white space as String.prototype.trim and the regex class \s see it
IsWs(c) == c \in {" ", "\n", "\t", "\r"}

Min(S) == CHOOSE x \in S : \A y \in S : x <= y
Max(S) == CHOOSE x \in S : \A y \in S : x >= y

\* lit occurs in s at the 1-based position i
HasAt(s, i, lit) ==
    /\ i >= 1
    /\ i + Len(lit) - 1 <= Len(s)
    /\ \A k \in 1..Len(lit) : s[i + k - 1] = lit[k]

\* number of consecutive white-space characters of s from position i on
WsRun(s, i) ==
    LET stops == {j \in i..Len(s) : ~IsWs(s[j])}
    IN  IF i > Len(s) THEN 0
        ELSE IF stops = {} THEN Len(s) - i + 1
        ELSE Min(stops) - i

\* the first position from i on that holds no white space (Len(s) + 1 if none)
RECURSIVE SkipWsForward(_, _)
SkipWsForward(s, i) ==
    IF i > Len(s) \/ ~IsWs(s[i]) THEN i ELSE SkipWsForward(s, i + 1)

\* the last position up to i that holds no white space (0 if none)
RECURSIVE SkipWsBackward(_, _)
SkipWsBackward(s, i) ==
    IF i < 1 \/ ~IsWs(s[i]) THEN i ELSE SkipWsBackward(s, i - 1)

trim(s) ==
    LET first == SkipWsForward(s, 1)
    IN  IF first > Len(s) THEN <<>> ELSE SubSeq(s, first, SkipWsBackward(s, Len(s)))

startsWith(s, lit) == HasAt(s, 1, lit)

\* s.lastIndexOf(c): 0-based index, -1 when c does not occur
lastIndexOf(s, c) ==
    LET at == {j \in 1..Len(s) : s[j] = c}
    IN  IF at = {} THEN -1 ELSE Max(at) - 1

\* s.substring(from, to) with 0 <= from <= to (0-based, end exclusive)
substring(s, from, to) ==
    LET e == IF to > Len(s) THEN Len(s) ELSE to
    IN  IF from >= e THEN <<>> ELSE SubSeq(s, from + 1, e)

\* lower case of the letters that occur in the prefixes of strategy 4
toLower(c) ==
    CASE c = "H" -> "h" [] c = "E" -> "e" [] c = "R" -> "r" [] c = "I" -> "i"
      [] c = "S" -> "s" [] c = "O" -> "o" [] c = "U" -> "u" [] c = "T" -> "t"
      [] c = "P" -> "p" [] c = "L" -> "l"
      [] OTHER -> c

\* lit occurs in s at position i, letter case ignored (regex flag i)
HasAtNoCase(s, i, lit) ==
    /\ i >= 1
    /\ i + Len(lit) - 1 <= Len(s)
    /\ \A k \in 1..Len(lit) : toLower(s[i + k - 1]) = toLower(lit[k])

\* a match result: found, and the group the caller reads (g1; the whole match for strategy 3)
NoMatch == [found |-> FALSE, g1 |-> <<>>]

-----------------------------------------------------------------------------
(* /'''(?:json)?\s*([\s\S]*?)\s*'''/ with ' for U+0060: the match of strategy 2 *)

\* \s*''' matches at position q
ClosesAt(s, q) == \E k \in 0..WsRun(s, q) : HasAt(s, q + k, Fence)

\* the lazy group ([\s\S]*?) started at p: the shortest text followed by \s*'''
LazyGroupFrom(s, p) ==
    LET ends == {q \in p..(Len(s) + 1) : ClosesAt(s, q)}
    IN  IF ends = {} THEN NoMatch
        ELSE [found |-> TRUE, g1 |-> SubSeq(s, p, Min(ends) - 1)]

\* the greedy \s* at p0 followed by the lazy group: most white space first
WsThenGroup(s, p0) ==
    LET ok == {w \in 0..WsRun(s, p0) : LazyGroupFrom(s, p0 + w).found}
    IN  IF ok = {} THEN NoMatch ELSE LazyGroupFrom(s, p0 + Max(ok))

\* the pattern anchored at position i: the optional tag is tried first
FenceMatchAt(s, i) ==
    IF ~HasAt(s, i, Fence) THEN NoMatch
    ELSE IF HasAt(s, i + 3, TagJson) /\ WsThenGroup(s, i + 7).found
         THEN WsThenGroup(s, i + 7)
         ELSE WsThenGroup(s, i + 3)

\* String.prototype.match: the leftmost position at which the pattern matches
jsonBlockMatch(s) ==
    LET at == {i \in 1..Len(s) : FenceMatchAt(s, i).found}
    IN  IF at = {} THEN NoMatch ELSE FenceMatchAt(s, Min(at))

-----------------------------------------------------------------------------
(* /\{[\s\S]*\}/ : the match of strategy 3 *)

\* the pattern anchored at position i: greedy, up to the last closing brace
ObjectMatchAt(s, i) ==
    LET closes == {j \in (i + 1)..Len(s) : s[j] = "}"}
    IN  IF i > Len(s) \/ s[i] # "{" \/ closes = {} THEN NoMatch
        ELSE [found |-> TRUE, g1 |-> SubSeq(s, i, Max(closes))]

\* mutant of objectMatch: the pattern of strategy 3 never matches
objectMatch_never(s) == NoMatch

objectMatch(s) ==
    LET at == {i \in 1..Len(s) : ObjectMatchAt(s, i).found}
    IN  IF at = {} THEN NoMatch ELSE ObjectMatchAt(s, Min(at))

-----------------------------------------------------------------------------
(* /(?:Here's|Here is|Output:|Result:)?\s*(\{[\s\S]*\})/i : strategy 4 *)

ConversationalPrefixes ==
    << <<"H", "e", "r", "e", "'", "s">>,
       <<"H", "e", "r", "e", " ", "i", "s">>,
       <<"O", "u", "t", "p", "u", "t", ":">>,
       <<"R", "e", "s", "u", "l", "t", ":">> >>

\* \s*(\{[\s\S]*\}) at p0: the greedy \s*, then the braces group
WsThenObject(s, p0) ==
    LET ok == {w \in 0..WsRun(s, p0) : ObjectMatchAt(s, p0 + w).found}
    IN  IF ok = {} THEN NoMatch ELSE ObjectMatchAt(s, p0 + Max(ok))

\* the pattern anchored at i: the alternatives in order, then no prefix
PrefixMatchAt(s, i) ==
    LET alts == {a \in 1..Len(ConversationalPrefixes) :
                    /\ HasAtNoCase(s, i, ConversationalPrefixes[a])
                    /\ WsThenObject(s, i + Len(ConversationalPrefixes[a])).found}
    IN  IF alts # {}
        THEN WsThenObject(s, i + Len(ConversationalPrefixes[Min(alts)]))
        ELSE WsThenObject(s, i)

afterPrefixMatch(s) ==
    LET at == {i \in 1..Len(s) : PrefixMatchAt(s, i).found}
    IN  IF at = {} THEN NoMatch ELSE PrefixMatchAt(s, Min(at))

-----------------------------------------------------------------------------
(* JavaScript values, as JSON.parse builds them *)

Null == [t |-> "null"]
Undefined == [t |-> "undefined"]
Bool(b) == [t |-> "boolean", v |-> b]
Num(n) == [t |-> "number", v |-> n]
Str(s) == [t |-> "string", v |-> s]
\* an array: v is the sequence of its elements
Arr(elems) == [t |-> "array", v |-> elems]
\* a plain object: v is the function from its own keys to their values
Obj(props) == [t |-> "object", v |-> props]

EmptyProps == <<>>
\* obj[key] = val: a repeated key keeps its last value
SetProp(props, key, val) == (key :> val) @@ props

-----------------------------------------------------------------------------
(* JSON.parse: a recursive-descent reading of the JSON grammar (ECMA-404).  *)
(* Number literals are integers and strings hold no escape sequence: the    *)
(* response texts of this model contain no '.', exponent or backslash.      *)

ParseFail == [ok |-> FALSE, val |-> Undefined, next |-> 0]
ParseOk(val, next) == [ok |-> TRUE, val |-> val, next |-> next]

IsDigit(c) == c \in {"0", "1", "2", "3", "4", "5", "6", "7", "8", "9"}
DigitVal(c) ==
    CASE c = "0" -> 0 [] c = "1" -> 1 [] c = "2" -> 2 [] c = "3" -> 3
      [] c = "4" -> 4 [] c = "5" -> 5 [] c = "6" -> 6 [] c = "7" -> 7
      [] c = "8" -> 8 [] c = "9" -> 9

RECURSIVE DigitsVal(_, _, _)
\* the value of the decimal digits s[from..to]
DigitsVal(s, from, to) ==
    IF from > to THEN 0
    ELSE 10 * DigitsVal(s, from, to - 1) + DigitVal(s[to])

\* the position after the JSON white space that starts at i
SkipWs(s, i) == i + WsRun(s, i)

\* a string literal whose opening quote is at i
ParseString(s, i) ==
    LET closes == {j \in (i + 1)..Len(s) : s[j] = "\""}
    IN  IF closes = {} THEN ParseFail
        ELSE LET j == Min(closes)
             IN  IF \E k \in (i + 1)..(j - 1) : s[k] \in {"\n", "\t", "\r"}
                 THEN ParseFail
                 ELSE ParseOk(Str(SubSeq(s, i + 1, j - 1)), j + 1)

\* a number literal at i: -? (0 | [1-9][0-9]*)
ParseNumber(s, i) ==
    LET neg == s[i] = "-"
        d0 == IF neg THEN i + 1 ELSE i
        stops == {j \in d0..Len(s) : ~IsDigit(s[j])}
        runEnd == IF stops = {} THEN Len(s) ELSE Min(stops) - 1
        last == IF d0 <= Len(s) /\ s[d0] = "0" THEN d0 ELSE runEnd
    IN  IF d0 > Len(s) \/ ~IsDigit(s[d0]) THEN ParseFail
        ELSE ParseOk(Num((IF neg THEN -1 ELSE 1) * DigitsVal(s, d0, last)), last + 1)

RECURSIVE ParseValue(_, _)
RECURSIVE ParseElements(_, _, _)
RECURSIVE ParseMembers(_, _, _)

\* the elements of an array from position i on, acc being those already read
ParseElements(s, i, acc) ==
    LET e == ParseValue(s, i)
        j == SkipWs(s, e.next)
    IN  IF ~e.ok \/ j > Len(s) THEN ParseFail
        ELSE IF s[j] = "," THEN ParseElements(s, j + 1, Append(acc, e.val))
        ELSE IF s[j] = "]" THEN ParseOk(Arr(Append(acc, e.val)), j + 1)
        ELSE ParseFail

\* the members of an object from position i on, acc being those already read
ParseMembers(s, i, acc) ==
    LET k0 == SkipWs(s, i)
        key == IF k0 <= Len(s) /\ s[k0] = "\"" THEN ParseString(s, k0) ELSE ParseFail
        c == SkipWs(s, key.next)
        m == IF key.ok /\ c <= Len(s) /\ s[c] = ":" THEN ParseValue(s, c + 1) ELSE ParseFail
        j == SkipWs(s, m.next)
    IN  IF ~m.ok \/ j > Len(s) THEN ParseFail
        ELSE IF s[j] = "," THEN ParseMembers(s, j + 1, SetProp(acc, key.val.v, m.val))
        ELSE IF s[j] = "}" THEN ParseOk(Obj(SetProp(acc, key.val.v, m.val)), j + 1)
        ELSE ParseFail

\* a JSON value at or after position i0 (leading white space skipped)
ParseValue(s, i0) ==
    LET i == SkipWs(s, i0)
    IN  IF i > Len(s) THEN ParseFail
        ELSE IF s[i] = "{"
             THEN LET j == SkipWs(s, i + 1)
                  IN  IF j <= Len(s) /\ s[j] = "}" THEN ParseOk(Obj(EmptyProps), j + 1)
                      ELSE ParseMembers(s, j, EmptyProps)
        ELSE IF s[i] = "["
             THEN LET j == SkipWs(s, i + 1)
                  IN  IF j <= Len(s) /\ s[j] = "]" THEN ParseOk(Arr(<<>>), j + 1)
                      ELSE ParseElements(s, j, <<>>)
        ELSE IF s[i] = "\"" THEN ParseString(s, i)
        ELSE IF s[i] = "-" \/ IsDigit(s[i]) THEN ParseNumber(s, i)
        ELSE IF HasAt(s, i, <<"n", "u", "l", "l">>) THEN ParseOk(Null, i + 4)
        ELSE IF HasAt(s, i, <<"t", "r", "u", "e">>) THEN ParseOk(Bool(TRUE), i + 4)
        ELSE IF HasAt(s, i, <<"f", "a", "l", "s", "e">>) THEN ParseOk(Bool(FALSE), i + 5)
        ELSE ParseFail

\* JSON.parse(s): ok is FALSE where JSON.parse throws a SyntaxError
JSONParse(s) ==
    LET r == ParseValue(s, 1)
    IN  IF r.ok /\ SkipWs(s, r.next) = Len(s) + 1
        THEN [ok |-> TRUE, val |-> r.val]
        ELSE [ok |-> FALSE, val |-> Undefined]

-----------------------------------------------------------------------------
(* The JavaScript operations validateKeywordResult applies to a value *)

\* ToBoolean(v), as  !v  and  a && b  use it
truthy(v) ==
    CASE v.t = "null" -> FALSE
      [] v.t = "undefined" -> FALSE
      [] v.t = "boolean" -> v.v
      [] v.t = "number" -> v.v # 0
      [] v.t = "string" -> Len(v.v) > 0
      [] OTHER -> TRUE

\* typeof v
typeof(v) ==
    IF v.t \in {"null", "array", "object"} THEN "object" ELSE v.t

\* Array.isArray(v)
isArray(v) == v.t = "array"

kLength == <<"l", "e", "n", "g", "t", "h">>
kTerm == <<"t", "e", "r", "m">>
kRationale == <<"r", "a", "t", "i", "o", "n", "a", "l", "e">>
kPrimary == <<"p", "r", "i", "m", "a", "r", "y">>
kSecondary == <<"s", "e", "c", "o", "n", "d", "a", "r", "y">>
kLongtail == <<"l", "o", "n", "g", "t", "a", "i", "l">>
kCompetitorInsights ==
    <<"c", "o", "m", "p", "e", "t", "i", "t", "o", "r",
      "I", "n", "s", "i", "g", "h", "t", "s">>
kLsiKeywords == <<"l", "s", "i", "K", "e", "y", "w", "o", "r", "d", "s">>
kQuestionKeywords ==
    <<"q", "u", "e", "s", "t", "i", "o", "n", "K", "e", "y", "w", "o", "r", "d", "s">>
kEntities == <<"e", "n", "t", "i", "t", "i", "e", "s">>
kSearchReferences ==
    <<"s", "e", "a", "r", "c", "h", "R", "e", "f", "e", "r", "e", "n", "c", "e", "s">>
kContentType == <<"c", "o", "n", "t", "e", "n", "t", "T", "y", "p", "e">>
kDetectedLanguage ==
    <<"d", "e", "t", "e", "c", "t", "e", "d", "L", "a", "n", "g", "u", "a", "g", "e">>

\* v[key] for a v that is neither null nor undefined (those throw a TypeError);
\* none of the keys read by the code is inherited from a prototype
getProp(v, key) ==
    CASE v.t = "object" -> IF key \in DOMAIN v.v THEN v.v[key] ELSE Undefined
      [] v.t = "array" -> IF key = kLength THEN Num(Len(v.v)) ELSE Undefined
      [] v.t = "string" -> IF key = kLength THEN Num(Len(v.v)) ELSE Undefined
      [] OTHER -> Undefined

-----------------------------------------------------------------------------
(* validateKeywordResult (geminiService.ts) *)

\* mutant of itemValid: the strings are not trimmed before their length is taken
itemValid_untrimmed(item) ==
    /\ truthy(item)
    /\ typeof(item) = "object"
    /\ typeof(getProp(item, kTerm)) = "string"
    /\ Len(getProp(item, kTerm).v) > 0
    /\ typeof(getProp(item, kRationale)) = "string"
    /\ Len(getProp(item, kRationale).v) > 0

\* the predicate of arr.every(...) in validateKeywordArray
itemValid(item) ==
    /\ truthy(item)
    /\ typeof(item) = "object"
    /\ typeof(getProp(item, kTerm)) = "string"
    /\ Len(trim(getProp(item, kTerm).v)) > 0
    /\ typeof(getProp(item, kRationale)) = "string"
    /\ Len(trim(getProp(item, kRationale).v)) > 0

\* mutant of validateKeywordArray: the limits themselves are refused
validateKeywordArray_exclusive(arr, minCount, maxCount, required) ==
    IF ~isArray(arr) THEN ~required
    ELSE IF Len(arr.v) <= minCount \/ Len(arr.v) >= maxCount THEN FALSE
    ELSE \A i \in 1..Len(arr.v) : itemValid(arr.v[i])

validateKeywordArray(arr, minCount, maxCount, required) ==
    IF ~isArray(arr) THEN ~required
    ELSE IF Len(arr.v) < minCount \/ Len(arr.v) > maxCount THEN FALSE
    ELSE \A i \in 1..Len(arr.v) : itemValid(arr.v[i])

\* mutant of coreValid: competitorInsights is only tested to be a string
coreValid_blankInsights(data) ==
    /\ validateKeywordArray(getProp(data, kPrimary), 1, 10, TRUE)
    /\ validateKeywordArray(getProp(data, kSecondary), 2, 20, TRUE)
    /\ validateKeywordArray(getProp(data, kLongtail), 3, 30, TRUE)
    /\ typeof(getProp(data, kCompetitorInsights)) = "string"

\* coreValid of validateKeywordResult, for a data that passed the object test
coreValid(data) ==
    /\ validateKeywordArray(getProp(data, kPrimary), 1, 10, TRUE)
    /\ validateKeywordArray(getProp(data, kSecondary), 2, 20, TRUE)
    /\ validateKeywordArray(getProp(data, kLongtail), 3, 30, TRUE)
    /\ typeof(getProp(data, kCompetitorInsights)) = "string"
    /\ Len(trim(getProp(data, kCompetitorInsights).v)) > 0

\* the optional categories for which validateKeywordResult logs
\* "... present but invalid - will be ignored"; it changes nothing in data
optionalWarnings(data) ==
    {k \in {kLsiKeywords, kQuestionKeywords, kEntities} :
        /\ truthy(getProp(data, k))
        /\ ~validateKeywordArray(getProp(data, k),
                                 IF k = kEntities THEN 1 ELSE 5,
                                 IF k = kEntities THEN 50 ELSE 8, FALSE)}

\* mutant of validateKeywordResult: an optional category that is present must
\* be valid too
validateKeywordResult_optionalRequired(data) ==
    IF ~truthy(data) \/ typeof(data) # "object" THEN FALSE
    ELSE coreValid(data) /\ optionalWarnings(data) = {}

validateKeywordResult(data) ==
    IF ~truthy(data) \/ typeof(data) # "object" THEN FALSE
    ELSE coreValid(data)

-----------------------------------------------------------------------------
(* The revisions of validateKeywordResult kept in the repository.  They      *)
(* differ from the one of geminiService.ts in the ranges of the required     *)
(* categories only.                                                          *)

\* src/unnamed/part_002 lines 1032-1095: primary 3-5, secondary 8-12, longtail 10-15
validateKeywordResultFixed(data) ==
    IF ~truthy(data) \/ typeof(data) # "object" THEN FALSE
    ELSE /\ validateKeywordArray(getProp(data, kPrimary), 3, 5, TRUE)
         /\ validateKeywordArray(getProp(data, kSecondary), 8, 12, TRUE)
         /\ validateKeywordArray(getProp(data, kLongtail), 10, 15, TRUE)
         /\ typeof(getProp(data, kCompetitorInsights)) = "string"
         /\ Len(trim(getProp(data, kCompetitorInsights).v)) > 0

\* mutant of validateKeywordResultFlexible: at most 4 primary keywords
validateKeywordResultFlexible_narrow(data) ==
    IF ~truthy(data) \/ typeof(data) # "object" THEN FALSE
    ELSE /\ validateKeywordArray(getProp(data, kPrimary), 2, 4, TRUE)
         /\ validateKeywordArray(getProp(data, kSecondary), 5, 12, TRUE)
         /\ validateKeywordArray(getProp(data, kLongtail), 8, 20, TRUE)
         /\ typeof(getProp(data, kCompetitorInsights)) = "string"
         /\ Len(trim(getProp(data, kCompetitorInsights).v)) > 0

\* src/unnamed/part_001 lines 40-103: primary 2-5, secondary 5-12, longtail 8-20
validateKeywordResultFlexible(data) ==
    IF ~truthy(data) \/ typeof(data) # "object" THEN FALSE
    ELSE /\ validateKeywordArray(getProp(data, kPrimary), 2, 5, TRUE)
         /\ validateKeywordArray(getProp(data, kSecondary), 5, 12, TRUE)
         /\ validateKeywordArray(getProp(data, kLongtail), 8, 20, TRUE)
         /\ typeof(getProp(data, kCompetitorInsights)) = "string"
         /\ Len(trim(getProp(data, kCompetitorInsights).v)) > 0

\* the verdict as recorded
Verdict(valid) == IF valid THEN "valid" ELSE "invalid"

\* the revision of part_002 validates revData
ValidateFixed ==
    /\ revData # Undefined
    /\ revVerdict.fixed = "none"
    /\ revVerdict' = [revVerdict EXCEPT !.fixed = Verdict(validateKeywordResultFixed(revData))]
    /\ UNCHANGED revData
    /\ UNCHANGED notRevVars

\* the revision of part_001 validates revData
ValidateFlexible ==
    /\ revData # Undefined
    /\ revVerdict.flexible = "none"
    /\ revVerdict' = [revVerdict EXCEPT
                        !.flexible = Verdict(validateKeywordResultFlexible(revData))]
    /\ UNCHANGED revData
    /\ UNCHANGED notRevVars

\* the revision of geminiService.ts validates revData
ValidateCurrent ==
    /\ revData # Undefined
    /\ revVerdict.current = "none"
    /\ revVerdict' = [revVerdict EXCEPT !.current = Verdict(validateKeywordResult(revData))]
    /\ UNCHANGED revData
    /\ UNCHANGED notRevVars

\* no value is being validated by the revisions
RevIdle ==
    /\ revData = Undefined
    /\ revVerdict = [fixed |-> "none", flexible |-> "none", current |-> "none"]

-----------------------------------------------------------------------------
(* Errors: the constructor name, the literal text of the message and the   *)
(* values interpolated into it                                              *)

Err(name, message, args) == [name |-> name, message |-> message, args |-> args]
NoError == Err("none", "", <<>>)

MsgEmptyResponse ==
    "Received empty response from AI. This may indicate an API quota issue or invalid API key. Please check your Gemini API key and quota."
MsgNoJson ==
    "The AI did not return valid JSON. This is a format error. Please try again. If the issue persists, try Deep Analysis mode. Response preview: ${text.substring(0, 200)}..."
MsgParseFailed ==
    "Failed to parse AI response as JSON. ${errorMsg}. This usually means the AI didn't follow the JSON format correctly. Please try again or use Deep Analysis mode for better results."
MsgInvalidCounts ==
    "AI response has invalid keyword counts. Expected: Target Focus (1-10), Supporting Topics (2-20), User Query Variations (3-30). Received: Target Focus (${counts.primary}), Supporting Topics (${counts.secondary}), User Queries (${counts.longtail}). This usually indicates the AI didn't extract enough keywords from the article. Please try again or use Deep Analysis mode for better results."
\* the engine's message for reading a property of null
MsgNullProperty == "Cannot read properties of null (reading 'primary')"
MsgFormatInvalid ==
    "Failed to parse the AI's response. The format was invalid. Please try again."
MsgGeneric ==
    "An error occurred while generating keywords. Please check your connection and API key, then try again."
MsgOpenAIEmpty == "Received empty response from OpenAI. Please try again."
MsgOpenAINoJson == "The AI did not return valid JSON. This is a format error."
MsgOpenAIParseFailed ==
    "Failed to parse AI response as JSON. ${errorMsg}. The AI may have returned text instead of pure JSON. Please try again."

MsgKeyRequired ==
    "OpenAI API key is required. Get one from https://platform.openai.com/api-keys"

\* message.includes(needle), read off the literal texts above (case-sensitive)
includes(message, needle) ==
    <<message, needle>> \in
        { <<MsgEmptyResponse, "response">>, <<MsgEmptyResponse, "quota">>,
          <<MsgEmptyResponse, "API key">>,
          <<MsgNoJson, "Deep Analysis">>,
          <<MsgParseFailed, "response">>, <<MsgParseFailed, "Deep Analysis">>,
          <<MsgInvalidCounts, "response">>, <<MsgInvalidCounts, "Deep Analysis">>,
          <<MsgFormatInvalid, "response">>,
          <<MsgGeneric, "API key">>,
          <<MsgOpenAIEmpty, "response">>,
          <<MsgKeyRequired, "API key">>,
          <<MsgOpenAIParseFailed, "response">> }

\* the ranges the text of MsgInvalidCounts states: primary, secondary, longtail
MsgInvalidCountsRanges == << <<1, 10>>, <<2, 20>>, <<3, 30>> >>

\* length of the preview: text.substring(0, 200)
PreviewLen == 200

-----------------------------------------------------------------------------
(* generateKeywords (geminiService.ts), from the response text on *)

\* the values the caller computed before the LLM call
CallerGroundingChunks == Arr(<<>>)
CallerContentType == Str(<<"G", "e", "n", "e", "r", "a", "l">>)
CallerDetectedLanguage == Str(<<"e", "n", "g", "l", "i", "s", "h">>)

\* text = response.text.trim()
responseTextOf(raw) == trim(raw)

Extracted(n, jt) == [ok |-> TRUE, strategy |-> n, jsonText |-> jt]
NotExtracted == [ok |-> FALSE, strategy |-> 0, jsonText |-> <<>>]

\* mutant of extractJson: the brace span is tried before the fenced block
extractJson_objectFirst(text) ==
    LET jt == trim(text)
        jsonBlock == jsonBlockMatch(jt)
        object == objectMatch(jt)
    IN  IF startsWith(jt, <<"{">>) THEN Extracted(1, jt)
        ELSE IF object.found THEN Extracted(3, object.g1)
        ELSE IF jsonBlock.found /\ Len(jsonBlock.g1) > 0
             THEN Extracted(2, trim(jsonBlock.g1))
        ELSE NotExtracted

\* the four extraction strategies, on the trimmed response text
extractJson(text) ==
    LET jt == trim(text)
        jsonBlock == jsonBlockMatch(jt)
        object == objectMatch(jt)
        afterPrefix == afterPrefixMatch(jt)
    IN  IF startsWith(jt, <<"{">>) THEN Extracted(1, jt)
        ELSE IF jsonBlock.found /\ Len(jsonBlock.g1) > 0
             THEN Extracted(2, trim(jsonBlock.g1))
        ELSE IF object.found THEN Extracted(3, object.g1)
        ELSE IF afterPrefix.found /\ Len(afterPrefix.g1) > 0
             THEN Extracted(4, afterPrefix.g1)
        ELSE NotExtracted

\* mutant of cleanUp: the text is cut after its first closing brace
cleanUp_firstBrace(jt0) ==
    LET jt == trim(jt0)
        at == {j \in 1..Len(jt) : jt[j] = "}"}
    IN  IF at # {} THEN substring(jt, 0, Min(at)) ELSE jt

\* "Clean up the JSON text": trim, then cut what follows the last closing brace
cleanUp(jt0) ==
    LET jt == trim(jt0)
        lastBrace == lastIndexOf(jt, "}")
    IN  IF lastBrace # -1 /\ lastBrace < Len(jt) - 1
        THEN substring(jt, 0, lastBrace + 1)
        ELSE jt

\* x?.length || 0, for x = parsedResult.primary and so on
lengthOrZero(x) ==
    LET len == IF x.t \in {"null", "undefined"} THEN Undefined ELSE getProp(x, kLength)
    IN  IF truthy(len) THEN len ELSE Num(0)

\* the error thrown by the block that follows a failed validation
validationFailure(parsed) ==
    IF parsed.t \in {"null", "undefined"}
    THEN Err("TypeError", MsgNullProperty, <<>>)
    ELSE Err("Error", MsgInvalidCounts,
             << lengthOrZero(getProp(parsed, kPrimary)),
                lengthOrZero(getProp(parsed, kSecondary)),
                lengthOrZero(getProp(parsed, kLongtail)) >>)

\* { ...parsedResult, searchReferences, contentType, detectedLanguage }
returnValue(parsed) ==
    Obj(SetProp(SetProp(SetProp(parsed.v,
            kSearchReferences, CallerGroundingChunks),
            kContentType, CallerContentType),
            kDetectedLanguage, CallerDetectedLanguage))

\* the catch block of generateKeywords: the error that reaches the caller
catchGemini(e) ==
    IF e.name = "SyntaxError" THEN Err("Error", MsgFormatInvalid, <<>>)
    ELSE IF \/ includes(e.message, "API_KEY")
            \/ includes(e.message, "response")
            \/ includes(e.message, "structure")
         THEN e
    ELSE Err("Error", MsgGeneric, <<>>)

Throw(e) ==
    /\ pc' = "thrown"
    /\ inner' = e
    /\ error' = catchGemini(e)

\* lines 1285-1324: the empty-response check and the extraction strategies
ExtractJson ==
    /\ pc = "received"
    /\ LET text == responseTextOf(responseText)
           x == extractJson(text)
       IN  IF Len(text) = 0
           THEN /\ Throw(Err("Error", MsgEmptyResponse, <<>>))
                /\ UNCHANGED <<strategy, jsonText>>
           ELSE IF x.ok
           THEN /\ pc' = "extracted"
                /\ strategy' = x.strategy
                /\ jsonText' = x.jsonText
                /\ UNCHANGED <<inner, error>>
           ELSE /\ Throw(Err("SyntaxError", MsgNoJson, <<substring(text, 0, PreviewLen)>>))
                /\ UNCHANGED <<strategy, jsonText>>
    /\ UNCHANGED <<responseText, parsedResult, result, opc, ojsonText, oparsedResult, oresult, oerror>>
    /\ UNCHANGED notParserVars

\* lines 1326-1351: clean-up and JSON.parse
CleanAndParse ==
    /\ pc = "extracted"
    /\ jsonText' = cleanUp(jsonText)
    /\ LET p == JSONParse(jsonText')
       IN  IF p.ok
           THEN /\ pc' = "parsed"
                /\ parsedResult' = p.val
                /\ UNCHANGED <<inner, error>>
           ELSE /\ Throw(Err("SyntaxError", MsgParseFailed, <<>>))
                /\ UNCHANGED parsedResult
    /\ UNCHANGED <<responseText, strategy, result, opc, ojsonText, oparsedResult, oresult, oerror>>
    /\ UNCHANGED notParserVars

\* lines 1353-1379: validation, then the value returned
ValidateAndReturn ==
    /\ pc = "parsed"
    /\ IF validateKeywordResult(parsedResult)
       THEN /\ pc' = "returned"
            /\ result' = returnValue(parsedResult)
            /\ UNCHANGED <<inner, error>>
       ELSE /\ Throw(validationFailure(parsedResult))
            /\ UNCHANGED result
    /\ UNCHANGED <<responseText, strategy, jsonText, parsedResult,
                   opc, ojsonText, oparsedResult, oresult, oerror>>
    /\ UNCHANGED notParserVars

-----------------------------------------------------------------------------
(* generateKeywordsWithOpenAI (openaiService.ts), up to JSON.parse *)

\* the four extraction strategies of the OpenAI path
openaiExtractJson(text) ==
    LET jt == trim(text)
        jsonBlock == jsonBlockMatch(jt)
        object == objectMatch(jt)
        afterPrefix == afterPrefixMatch(jt)
    IN  IF startsWith(jt, <<"{">>) THEN Extracted(1, jt)
        ELSE IF jsonBlock.found /\ Len(jsonBlock.g1) > 0
             THEN Extracted(2, trim(jsonBlock.g1))
        ELSE IF object.found THEN Extracted(3, object.g1)
        ELSE IF afterPrefix.found /\ Len(afterPrefix.g1) > 0
             THEN Extracted(4, afterPrefix.g1)
        ELSE NotExtracted

\* the catch block of generateKeywordsWithOpenAI
catchOpenAI(e) ==
    IF includes(e.message, "API key")
    THEN Err("Error", "OpenAI API Key Error: Invalid or missing API key. Please check your API key at https://platform.openai.com/api-keys", <<>>)
    ELSE IF includes(e.message, "quota")
    THEN Err("Error", "OpenAI Quota Exceeded: You have exceeded your API usage quota. Check your usage at https://platform.openai.com/usage", <<>>)
    ELSE IF includes(e.message, "rate limit")
    THEN Err("Error", "OpenAI Rate Limit: Too many requests. Please wait a moment and try again.", <<>>)
    ELSE e

\* lines 77-127: empty check, extraction strategies and JSON.parse
OpenAIExtractAndParse ==
    /\ opc = "received"
    /\ LET x == openaiExtractJson(responseText)
           p == JSONParse(x.jsonText)
       IN  IF Len(responseText) = 0
           THEN /\ opc' = "thrown"
                /\ oerror' = catchOpenAI(Err("Error", MsgOpenAIEmpty, <<>>))
                /\ UNCHANGED <<ojsonText, oparsedResult>>
           ELSE IF ~x.ok
           THEN /\ opc' = "thrown"
                /\ oerror' = catchOpenAI(Err("SyntaxError", MsgOpenAINoJson, <<>>))
                /\ UNCHANGED <<ojsonText, oparsedResult>>
           ELSE IF ~p.ok
           THEN /\ opc' = "thrown"
                /\ ojsonText' = x.jsonText
                /\ oerror' = catchOpenAI(Err("SyntaxError", MsgOpenAIParseFailed, <<>>))
                /\ UNCHANGED oparsedResult
           ELSE /\ opc' = "parsed"
                /\ ojsonText' = x.jsonText
                /\ oparsedResult' = p.val
                /\ UNCHANGED oerror
    /\ UNCHANGED <<responseText, pc, strategy, jsonText, parsedResult, result, error, inner,
                   oresult>>
    /\ UNCHANGED notParserVars

\* validateKeywordResult(parsedResult).isValid as generateKeywordsWithOpenAI reads
\* it: the verdict of the validation step on the parsed value
openaiIsValid(data) == validateKeywordResult(data)

MsgOpenAIIncomplete ==
    "OpenAI returned incomplete keyword data:\n\n${validationResult.errors.join('\n')}\n\nThis usually means the article is too short or the AI needs more context. Try using \"Deep Analysis Mode\" for better results, or ensure your article is at least 200+ words."

\* mutant of openaiReturnValue: detectedLanguage is always the caller's
openaiReturnValue_overwrite(parsed) ==
    Obj(SetProp(parsed.v, kDetectedLanguage, CallerDetectedLanguage))

\* lines 147-151: parsedResult, with detectedLanguage added when it has none
openaiReturnValue(parsed) ==
    IF ~truthy(getProp(parsed, kDetectedLanguage))
    THEN Obj(SetProp(parsed.v, kDetectedLanguage, CallerDetectedLanguage))
    ELSE parsed

\* lines 129-153: validation, then the value returned
OpenAIValidateAndReturn ==
    /\ opc = "parsed"
    /\ IF openaiIsValid(oparsedResult)
       THEN /\ opc' = "returned"
            /\ oresult' = openaiReturnValue(oparsedResult)
            /\ UNCHANGED oerror
       ELSE /\ opc' = "thrown"
            /\ oerror' = catchOpenAI(Err("Error", MsgOpenAIIncomplete, <<>>))
            /\ UNCHANGED oresult
    /\ UNCHANGED <<responseText, pc, strategy, jsonText, parsedResult, result, error, inner,
                   ojsonText, oparsedResult>>
    /\ UNCHANGED notParserVars

-----------------------------------------------------------------------------
(* Container selection of handleFetchAndGenerate (App.tsx).  An element is   *)
(* the record of what the selection reads of it: className + ' ' + id, the   *)
(* trimmed text lengths of its p, li, blockquote and pre descendants, the    *)
(* number of commas in its text, the summed text length of its anchors and   *)
(* the length of its text.  Scores are fractions <<numerator, denominator>>  *)
(* with a positive denominator.                                              *)

UpperCaseLetters ==
    <<"A", "B", "C", "D", "E", "F", "G", "H", "I", "J", "K", "L", "M", 
      "N", "O", "P", "Q", "R", "S", "T", "U", "V", "W", "X", "Y", "Z">>
LowerCaseLetters ==
    <<"a", "b", "c", "d", "e", "f", "g", "h", "i", "j", "k", "l", "m", 
      "n", "o", "p", "q", "r", "s", "t", "u", "v", "w", "x", "y", "z">>

\* the lower-case letter of each upper-case letter
LowerCaseOf ==
    [c \in {UpperCaseLetters[k] : k \in 1..26} |->
        LowerCaseLetters[CHOOSE k \in 1..26 : UpperCaseLetters[k] = c]]

\* String.prototype.toLowerCase, on the ASCII letters
toLowerCase(s) ==
    [i \in 1..Len(s) |-> IF s[i] \in DOMAIN LowerCaseOf THEN LowerCaseOf[s[i]] ELSE s[i]]

\* the alternatives of the regular expression of calculateScore
NoiseWords ==
    << <<"c", "o", "m", "m", "e", "n", "t">>,
       <<"s", "h", "a", "r", "e">>,
       <<"r", "e", "l", "a", "t", "e", "d">>,
       <<"a", "d">>,
       <<"f", "o", "o", "t", "e", "r">>,
       <<"h", "e", "a", "d", "e", "r">>,
       <<"m", "e", "n", "u">>,
       <<"n", "a", "v">>,
       <<"s", "i", "d", "e", "b", "a", "r">>,
       <<"p", "r", "o", "m", "o">>,
       <<"s", "o", "c", "i", "a", "l">>,
       <<"w", "i", "d", "g", "e", "t">> >>

\* /comment|share|...|widget/.test(s): an alternative occurs somewhere in s
noiseTest(s) ==
    \E w \in 1..Len(NoiseWords) : \E i \in 1..Len(s) : HasAt(s, i, NoiseWords[w])

Element(classAndId, blocks, commas, linkTextLength, totalTextLength) ==
    [classAndId |-> classAndId, blocks |-> blocks, commas |-> commas,
     linkTextLength |-> linkTextLength, totalTextLength |-> totalTextLength]

\* a reference to an element of doc: its body, its idx-th candidate, or null
BodyRef == [kind |-> "body", idx |-> 0]
CandidateRef(i) == [kind |-> "candidate", idx |-> i]
NullRef == [kind |-> "null", idx |-> 0]
ElementOf(d, ref) == IF ref.kind = "body" THEN d.body ELSE d.candidates[ref.idx]

\* doc.body: null when the body element was removed from the document
docBody(d) == IF d.hasBody THEN BodyRef ELSE NullRef

Fraction(n, d) == <<n, d>>
\* a > b on fractions
Greater(a, b) == a[1] * b[2] > b[1] * a[2]

RECURSIVE SumOver(_, _)
\* the sum of f[1..n]
SumOver(f, n) == IF n = 0 THEN 0 ELSE SumOver(f, n - 1) + f[n]

\* mutant of linkDensityPenalised: a density of exactly 0.35 is penalised too
linkDensityPenalised_inclusive(linkTextLength, totalTextLength) ==
    linkTextLength * 100 >= 35 * totalTextLength

\* line 45: linkDensity > 0.35, for linkDensity = linkTextLength / totalTextLength
linkDensityPenalised(linkTextLength, totalTextLength) ==
    linkTextLength * 100 > 35 * totalTextLength

\* mutant of calculateScore: the class and id are tested without lower-casing
calculateScore_caseSensitive(element) ==
    LET score == SumOver([i \in 1..Len(element.blocks) |->
                             IF element.blocks[i] > 25 THEN element.blocks[i] ELSE 0],
                         Len(element.blocks))
                 + element.commas * 10
        totalTextLength ==
            IF element.totalTextLength = 0 THEN 1 ELSE element.totalTextLength
    IN  IF noiseTest(element.classAndId) THEN Fraction(-100, 1)
        ELSE IF linkDensityPenalised(element.linkTextLength, totalTextLength)
             THEN Fraction(score * (totalTextLength - element.linkTextLength),
                           totalTextLength)
        ELSE Fraction(score, 1)

\* calculateScore: -100 for a noise class or id; else the long blocks and ten
\* per comma, scaled by (1 - linkDensity) when linkDensity > 0.35
calculateScore(element) ==
    LET classAndIdString == toLowerCase(element.classAndId)
        score == SumOver([i \in 1..Len(element.blocks) |->
                             IF element.blocks[i] > 25 THEN element.blocks[i] ELSE 0],
                         Len(element.blocks))
                 + element.commas * 10
        totalTextLength ==
            IF element.totalTextLength = 0 THEN 1 ELSE element.totalTextLength
    IN  IF noiseTest(classAndIdString) THEN Fraction(-100, 1)
        ELSE IF linkDensityPenalised(element.linkTextLength, totalTextLength)
             THEN Fraction(score * (totalTextLength - element.linkTextLength),
                           totalTextLength)
        ELSE Fraction(score, 1)

\* candidates.length > 0 ? Array.from(candidates) : [doc.body]
elementsToScoreOf(d) ==
    IF Len(d.candidates) > 0
    THEN [i \in 1..Len(d.candidates) |-> CandidateRef(i)]
    ELSE <<docBody(d)>>

Selection(element, score, threw) == [bestElement |-> element, bestScore |-> score, threw |-> threw]

RECURSIVE forEachScore(_, _, _, _)
\* elementsToScore.forEach(...) from position i on; calculateScore(null) throws
forEachScore(d, elements, i, best) ==
    IF i > Len(elements) \/ best.threw THEN best
    ELSE IF elements[i].kind = "null"
         THEN Selection(best.bestElement, best.bestScore, TRUE)
    ELSE LET score == calculateScore(ElementOf(d, elements[i]))
         IN  forEachScore(d, elements, i + 1,
                 IF Greater(score, best.bestScore)
                 THEN Selection(elements[i], score, FALSE)
                 ELSE best)

MsgNullClassName == "Cannot read properties of null (reading 'className')"

\* lines 133-145: bestElement = doc.body, bestScore = -1, then the forEach
SelectBestContainer ==
    /\ selectPc = "parsed"
    /\ elementsToScore' = elementsToScoreOf(doc)
    /\ LET sel == forEachScore(doc, elementsToScore', 1,
                               Selection(docBody(doc), Fraction(-1, 1), FALSE))
       IN  /\ bestElement' = sel.bestElement
           /\ bestScore' = sel.bestScore
           /\ IF sel.threw
              THEN /\ selectPc' = "thrown"
                   /\ selectError' = Err("TypeError", MsgNullClassName, <<>>)
              ELSE /\ selectPc' = "selected"
                   /\ UNCHANGED selectError
    /\ UNCHANGED doc
    /\ UNCHANGED notSelectVars

\* the container selection is not running
SelectIdle ==
    /\ doc = [hasBody |-> TRUE, body |-> Element(<<>>, <<>>, 0, 0, 0), candidates |-> <<>>]
    /\ elementsToScore = <<>>
    /\ bestElement = NullRef
    /\ bestScore = Fraction(-1, 1)
    /\ selectPc = "idle"
    /\ selectError = NoError

-----------------------------------------------------------------------------
(* extractCleanText and the combination of title and body (App.tsx).  The    *)
(* document is not rendered (it comes from DOMParser), so the innerText of   *)
(* an element is its text content, blank lines included.                     *)

Newline == "\n"

\* number of line feeds in s[from..to]
LineFeeds(s, from, to) == Cardinality({k \in from..to : s[k] = Newline})

RECURSIVE replaceBlankLines(_, _)
\* s.replace(/(\n\s*){3,}/g, '\n\n') from position i on: a match starts at a
\* line feed and runs over all the white space after it, which must hold at
\* least three line feeds
replaceBlankLines(s, i) ==
    LET feeds == {j \in i..Len(s) : s[j] = Newline}
    IN  IF feeds = {} THEN SubSeq(s, i, Len(s))
        ELSE LET j == Min(feeds)
                 run == WsRun(s, j)
             IN  IF LineFeeds(s, j, j + run - 1) >= 3
                 THEN SubSeq(s, i, j - 1) \o <<Newline, Newline>>
                          \o replaceBlankLines(s, j + run)
                 ELSE SubSeq(s, i, j) \o replaceBlankLines(s, j + 1)

\* number of consecutive \r and \n characters of s from position i on
BreakRun(s, i) ==
    LET stops == {j \in i..Len(s) : s[j] \notin {"\r", Newline}}
    IN  IF i > Len(s) THEN 0
        ELSE IF stops = {} THEN Len(s) - i + 1
        ELSE Min(stops) - i

RECURSIVE replaceNewlines(_, _)
\* s.replace(/(\r\n|\n|\r){3,}/gm, '\n\n') from position i on: a match is a
\* whole run of \r and \n characters that can be read as three or more
\* alternatives, that is a run of at least three characters
replaceNewlines(s, i) ==
    LET breaks == {j \in i..Len(s) : s[j] \in {"\r", Newline}}
    IN  IF breaks = {} THEN SubSeq(s, i, Len(s))
        ELSE LET j == Min(breaks)
                 run == BreakRun(s, j)
             IN  IF run >= 3
                 THEN SubSeq(s, i, j - 1) \o <<Newline, Newline>>
                          \o replaceNewlines(s, j + run)
                 ELSE SubSeq(s, i, j + run - 1) \o replaceNewlines(s, j + run)

RECURSIVE walkBlocks(_, _)
\* the loop of extractCleanText over the block elements met by the tree
\* walker: blocks[1..n] are their innerText values in document order
walkBlocks(blocks, n) ==
    IF n = 0 THEN <<>>
    ELSE LET blockText == trim(blocks[n])
         IN  IF Len(blockText) > 0
             THEN walkBlocks(blocks, n - 1) \o blockText \o <<Newline, Newline>>
             ELSE walkBlocks(blocks, n - 1)

\* mutant of extractCleanText: the blank lines are not collapsed
extractCleanText_noReplace(blocks) ==
    trim(walkBlocks(blocks, Len(blocks)))

extractCleanText(blocks) ==
    replaceBlankLines(trim(walkBlocks(blocks, Len(blocks))), 1)

\* lines 149-152: the structured text, or the innerText when it is short
contentOrInnerText(structured, containerInnerText) ==
    IF Len(structured) < 300 THEN trim(containerInnerText) ELSE structured

\* line 131: (doc.querySelector('h1')?.innerText || doc.title).trim()
titleOf(h1InnerText, docTitle) ==
    IF Len(h1InnerText) > 0 THEN trim(h1InnerText) ELSE trim(docTitle)

\* doc.querySelector('h1')?.innerText after line 129 removed the noise
\* elements: the text of the first h1 that is left, "" standing for undefined
firstH1InnerText(hs) ==
    LET left == SelectSeq(hs, LAMBDA h : ~h.inNoise)
    IN  IF Len(left) = 0 THEN <<>> ELSE left[1].innerText

\* lines 129-131: the noise elements are removed and the title is taken
TakeTitle ==
    /\ titlePc = "parsed"
    /\ title' = titleOf(firstH1InnerText(headings), documentTitle)
    /\ titlePc' = "taken"
    /\ UNCHANGED <<headings, documentTitle>>
    /\ UNCHANGED <<blockTexts, innerText, content, cleanedContent, fetchedContent, textPc>>
    /\ UNCHANGED <<parserVars, selectVars, uiVars, revVars, clientVars>>

\* no document is at hand
TitleIdle ==
    /\ headings = <<>>
    /\ documentTitle = <<>>
    /\ titlePc = "idle"

\* line 147: let content = extractCleanText(bestElement)
ExtractContent ==
    /\ textPc = "selected"
    /\ content' = extractCleanText(blockTexts)
    /\ textPc' = "extracted"
    /\ UNCHANGED <<blockTexts, innerText, title, cleanedContent, fetchedContent>>
    /\ UNCHANGED notTextVars

\* lines 149-155: the fallback to innerText, the clean-up and the combination
CombineText ==
    /\ textPc = "extracted"
    /\ content' = contentOrInnerText(content, innerText)
    /\ cleanedContent' = replaceNewlines(content', 1)
    /\ fetchedContent' = title \o <<Newline, Newline>> \o cleanedContent'
    /\ textPc' = "combined"
    /\ UNCHANGED <<blockTexts, innerText, title>>
    /\ UNCHANGED notTextVars

\* the text extraction is not running
TextIdle ==
    /\ blockTexts = <<>>
    /\ innerText = <<>>
    /\ title = <<>>
    /\ content = <<>>
    /\ cleanedContent = <<>>
    /\ fetchedContent = <<>>
    /\ textPc = "idle"

-----------------------------------------------------------------------------
(* The requests of the component (App.tsx): handleFetchAndGenerate and       *)
(* handleSubmit, cut at their awaits.  A request is the record of one call   *)
(* of a handler: its AbortController (aborted), its timer, the network state *)
(* of its article fetch (headers: response not yet there, body: response     *)
(* there and body still arriving), the text it checked and how it ended.     *)

(* the article texts the requests are run on *)

\* a text of n letters
Letters(n) == [i \in 1..n |-> "a"]

\* fetchedContent: title, blank line, body; trimmed lengths 498 to 501
FetchedTexts ==
    { <<"T">> \o <<Newline, Newline>> \o Letters(496),
      <<"T">> \o <<Newline, Newline>> \o Letters(497),
      <<Newline, Newline>> \o Letters(498),
      <<Newline, Newline>> \o Letters(499),
      <<Newline, Newline>> \o Letters(500) }

\* the text area: blank, short, and trimmed lengths 499, 500 and 501
ArticleTexts ==
    { <<" ", Newline>>, <<"a", "b">>,
      <<" ">> \o Letters(499) \o <<Newline>>,
      Letters(500),
      <<" ">> \o Letters(500) \o <<" ">>,
      Letters(501) }

NoRequest ==
    [kind |-> "none", rpc |-> "none", aborted |-> FALSE, timer |-> "none",
     net |-> "none", text |-> <<>>, outcome |-> "none"]

MsgInvalidUrl ==
    "Invalid URL format. Please enter a valid web address starting with http:// or https://"
MsgFetchStatus ==
    "Failed to fetch article (Status ${response.status}). The URL may be inaccessible or blocked."
MsgFetchedTooShort ==
    "Article content is too short for accurate analysis (minimum 500 characters required). The extraction may have failed."
MsgTimedOut == "Request timed out after 30 seconds. Please try again or check the URL."
MsgNetworkError ==
    "Network error: Unable to reach the article URL. Please check the URL and your internet connection."
MsgArticleTooShort ==
    "Article content is too short for accurate analysis (minimum 500 characters required)."
MsgParseFailedUi ==
    "Failed to parse AI response. The AI returned an invalid format. Please try again."
\* the message of the TypeError a failed fetch rejects with
MsgFailedToFetch == "Failed to fetch"

\* the catch block of handleFetchAndGenerate: the text given to setError
catchFetchAndGenerate(name, message) ==
    IF name = "AbortError" THEN MsgTimedOut
    ELSE IF message \in {MsgFetchStatus, MsgFailedToFetch} THEN MsgNetworkError
    ELSE message

\* mutant of catchSubmit: the error is swallowed
catchSubmit_silent(message) == "null"

\* the catch block of handleSubmit: the text given to setError
catchSubmit(message) ==
    IF message \in {MsgFormatInvalid, MsgParseFailed} THEN MsgParseFailedUi
    ELSE message

\* the errors generateKeywords rejects with
GenerateErrors == {MsgFormatInvalid, MsgGeneric, MsgInvalidCounts, MsgEmptyResponse}

\* mutant of controlsEnabled: the controls take input while a request runs
controlsEnabled_always(loading) == TRUE

\* disabled={isLoading ...} on the inputs and on both buttons
controlsEnabled(loading) == ~loading

\* mutant of fetchedTooShort: the length is taken without trimming
fetchedTooShort_untrimmed(fetched) == Len(fetched) < 500

\* line 157: fetchedContent.trim().length < 500
fetchedTooShort(fetched) == Len(trim(fetched)) < 500

\* line 198: articleContent.trim().length < 500
articleTooShort(article) == Len(trim(article)) < 500

\* abortControllerRef.current.abort(): the controller is aborted and a fetch
\* that uses its signal and is still under way is cancelled
abortCurrent(reqs, ref) ==
    IF ref = 0 THEN reqs
    ELSE [reqs EXCEPT ![ref].aborted = TRUE,
                      ![ref].net = IF @ \in {"headers", "body"} THEN "aborted" ELSE @]

\* the number of handler calls recorded so far
started(reqs) == Cardinality({r \in DOMAIN reqs : reqs[r].kind # "none"})

\* mutant of contentAtStart: the text area keeps its text
contentAtStart_kept(previous) == previous

\* line 97: setArticleContent('')
contentAtStart(previous) == <<>>

\* lines 79-117: handleFetchAndGenerate up to its await of fetch
StartFetch ==
    /\ controlsEnabled(isLoading)
    /\ started(requests) < Len(requests)
    /\ \E validUrl \in BOOLEAN :
        LET n == started(requests) + 1
            reqs == abortCurrent(requests, abortControllerRef)
        IN  /\ abortControllerRef' = n
            /\ uiResult' = 0
            /\ articleContent' = contentAtStart(articleContent)
            /\ IF validUrl
               THEN /\ requests' = [reqs EXCEPT ![n] =
                          [kind |-> "fetch", rpc |-> "awaitFetch", aborted |-> FALSE,
                           timer |-> "armed", net |-> "headers", text |-> <<>>,
                           outcome |-> "none"]]
                    /\ isLoading' = TRUE
                    /\ uiError' = "null"
               ELSE /\ requests' = [reqs EXCEPT ![n] =
                          [kind |-> "fetch", rpc |-> "done", aborted |-> FALSE,
                           timer |-> "cleared", net |-> "none", text |-> <<>>,
                           outcome |-> "invalidUrl"]]
                    /\ isLoading' = FALSE
                    /\ uiError' = catchFetchAndGenerate("Error", MsgInvalidUrl)
    /\ UNCHANGED llmTexts
    /\ UNCHANGED notUiVars

\* lines 112-123: the fetch settles (a response, or a network failure), the
\* timer is cleared and the status is tested
FetchResponds(r) ==
    /\ requests[r].rpc = "awaitFetch"
    /\ requests[r].net = "headers"
    /\ \E response \in {"ok", "notOk", "failed"} :
        IF response = "ok"
        THEN /\ requests' = [requests EXCEPT ![r].rpc = "awaitText",
                                             ![r].timer = "cleared",
                                             ![r].net = "body"]
             /\ UNCHANGED <<isLoading, uiError>>
        ELSE /\ requests' = [requests EXCEPT
                    ![r].rpc = "done",
                    ![r].timer = "cleared",
                    ![r].net = IF response = "notOk" THEN "body" ELSE "done",
                    ![r].outcome = IF response = "notOk" THEN "httpError" ELSE "networkError"]
             /\ isLoading' = FALSE
             /\ uiError' = catchFetchAndGenerate("Error",
                              IF response = "notOk" THEN MsgFetchStatus ELSE MsgFailedToFetch)
    /\ UNCHANGED <<uiResult, abortControllerRef, articleContent, llmTexts>>
    /\ UNCHANGED notUiVars

\* line 100: the callback of setTimeout(() => controller.abort(), 30000)
TimeoutFires(r) ==
    /\ requests[r].timer = "armed"
    /\ requests' = [requests EXCEPT
            ![r].timer = "fired",
            ![r].aborted = TRUE,
            ![r].net = IF @ \in {"headers", "body"} THEN "aborted" ELSE @]
    /\ UNCHANGED <<isLoading, uiError, uiResult, abortControllerRef, articleContent, llmTexts>>
    /\ UNCHANGED notUiVars

\* lines 169-188: the awaited fetch or body rejects with an AbortError
FetchRejects(r) ==
    /\ requests[r].rpc \in {"awaitFetch", "awaitText"}
    /\ requests[r].net = "aborted"
    /\ requests' = [requests EXCEPT ![r].rpc = "done", ![r].outcome = "timedOut"]
    /\ isLoading' = FALSE
    /\ uiError' = catchFetchAndGenerate("AbortError", "")
    /\ UNCHANGED <<uiResult, abortControllerRef, articleContent, llmTexts>>
    /\ UNCHANGED notUiVars

\* lines 125-165: the body has arrived; the article is extracted (fetched is
\* the fetchedContent it gives), its length is tested and generateKeywords is
\* called.  The body of a response that was not ok is read by nobody.
BodyArrives(r) ==
    /\ requests[r].net = "body"
    /\ IF requests[r].rpc = "awaitText"
       THEN \E fetched \in FetchedTexts :
              IF fetchedTooShort(fetched)
              THEN /\ requests' = [requests EXCEPT ![r].rpc = "done", ![r].net = "done",
                                                   ![r].text = fetched,
                                                   ![r].outcome = "tooShort"]
                   /\ isLoading' = FALSE
                   /\ uiError' = catchFetchAndGenerate("Error", MsgFetchedTooShort)
                   /\ UNCHANGED <<uiResult, articleContent, llmTexts>>
              ELSE /\ requests' = [requests EXCEPT ![r].rpc = "awaitLLM", ![r].net = "done",
                                                   ![r].text = fetched,
                                                   ![r].outcome = "called"]
                   /\ articleContent' = fetched
                   /\ llmTexts' = Append(llmTexts, fetched)
                   /\ UNCHANGED <<isLoading, uiError, uiResult>>
       ELSE /\ requests' = [requests EXCEPT ![r].net = "done"]
            /\ UNCHANGED <<isLoading, uiError, uiResult, articleContent, llmTexts>>
    /\ UNCHANGED abortControllerRef
    /\ UNCHANGED notUiVars

\* generateKeywords settles: lines 165-188 and lines 208-227
GenerateSettles(r) ==
    /\ requests[r].rpc = "awaitLLM"
    /\ \E e \in GenerateErrors \cup {"none"} :
        /\ requests' = [requests EXCEPT
                ![r].rpc = "done",
                ![r].outcome = IF e = "none" THEN "result" ELSE "generateError"]
        /\ uiError' = IF e = "none" THEN uiError
                      ELSE IF requests[r].kind = "fetch"
                           THEN catchFetchAndGenerate("Error", e)
                      ELSE catchSubmit(e)
        /\ uiResult' = IF e = "none" THEN r ELSE uiResult
    /\ isLoading' = FALSE
    /\ UNCHANGED <<abortControllerRef, articleContent, llmTexts>>
    /\ UNCHANGED notUiVars

\* line 331: the user edits the article text
TypeArticle ==
    /\ controlsEnabled(isLoading)
    /\ \E article \in ArticleTexts :
        /\ article # articleContent
        /\ articleContent' = article
    /\ UNCHANGED <<isLoading, uiError, uiResult, abortControllerRef, requests, llmTexts>>
    /\ UNCHANGED notUiVars

\* line 291: the user edits the URL, which clears the error
TypeUrl ==
    /\ controlsEnabled(isLoading)
    /\ uiError # "null"
    /\ uiError' = "null"
    /\ UNCHANGED <<isLoading, uiResult, articleContent, abortControllerRef, requests, llmTexts>>
    /\ UNCHANGED notUiVars

\* lines 191-208: handleSubmit up to its await of generateKeywords; the submit
\* button is disabled while the article text is blank
StartSubmit ==
    /\ controlsEnabled(isLoading)
    /\ Len(trim(articleContent)) > 0
    /\ started(requests) < Len(requests)
    /\ LET n == started(requests) + 1
       IN  IF articleTooShort(articleContent)
           THEN /\ requests' = [requests EXCEPT ![n] =
                      [kind |-> "submit", rpc |-> "done", aborted |-> FALSE,
                       timer |-> "none", net |-> "none", text |-> articleContent,
                       outcome |-> "tooShort"]]
                /\ uiError' = MsgArticleTooShort
                /\ UNCHANGED <<isLoading, uiResult, llmTexts>>
           ELSE /\ requests' = [requests EXCEPT ![n] =
                      [kind |-> "submit", rpc |-> "awaitLLM", aborted |-> FALSE,
                       timer |-> "none", net |-> "none", text |-> articleContent,
                       outcome |-> "called"]]
                /\ uiError' = "null"
                /\ isLoading' = TRUE
                /\ uiResult' = 0
                /\ llmTexts' = Append(llmTexts, articleContent)
    /\ UNCHANGED <<abortControllerRef, articleContent>>
    /\ UNCHANGED notUiVars

\* the component is not mounted
UiIdle ==
    /\ isLoading = FALSE
    /\ uiError = "null"
    /\ uiResult = 0
    /\ articleContent = <<>>
    /\ abortControllerRef = 0
    /\ requests = <<>>
    /\ llmTexts = <<>>

-----------------------------------------------------------------------------
(* The OpenAI client (openaiService.ts) *)

\* most calls of generateKeywordsWithOpenAI in a run
MaxCalls == 4

\* the apiKey arguments: empty, blank, and two keys
ApiKeys == { <<>>, <<" ">>, <<"s", "k", "-", "A">>, <<"s", "k", "-", "B">> }

\* line 6: let openaiClient = null
NoClient == [set |-> FALSE, apiKey |-> <<>>]

\* line 9: !apiKey || apiKey.trim() === ''
keyMissing(apiKey) == Len(apiKey) = 0 \/ Len(trim(apiKey)) = 0

\* lines 8-19: initializeOpenAI, as the client it leaves in openaiClient and the
\* error it throws
initializeOpenAI(client, apiKey) ==
    IF keyMissing(apiKey)
    THEN [client |-> client, error |-> Err("Error", MsgKeyRequired, <<>>)]
    ELSE [client |-> [set |-> TRUE, apiKey |-> apiKey], error |-> NoError]

\* lines 26-34 and 57: generateKeywordsWithOpenAI initialises the client when
\* there is none and sends the request through openaiClient; an error of the
\* initialisation goes through the catch block of lines 155-180
CallOpenAI ==
    /\ Len(clientCalls) < MaxCalls
    /\ \E apiKey \in ApiKeys :
        LET init == IF ~openaiClient.set THEN initializeOpenAI(openaiClient, apiKey)
                    ELSE [client |-> openaiClient, error |-> NoError]
        IN  /\ openaiClient' = init.client
            /\ clientCalls' = Append(clientCalls,
                  [apiKey |-> apiKey,
                   usedClient |-> init.error = NoError,
                   clientKey |-> IF init.error = NoError THEN init.client.apiKey ELSE <<>>,
                   error |-> IF init.error = NoError THEN NoError
                             ELSE catchOpenAI(init.error)])
    /\ UNCHANGED notClientVars

\* the module is not loaded
ClientIdle ==
    /\ openaiClient = NoClient
    /\ clientCalls = <<>>

-----------------------------------------------------------------------------
(* The response texts the model is run on *)

Q == "\""
Alphabet == {"{", "}", BackTick, " ", "x"}

\* every text over Alphabet of at most MaxTextLen characters
ShortTexts == UNION {[1..n -> Alphabet] : n \in 0..MaxTextLen}

\* JSON texts: objects, and other JSON and non-JSON bodies
JsonObjects ==
    { <<"{", "}">>,
      <<"{", Q, "a", Q, ":", "1", "}">>,
      <<"{", Q, "a", Q, ":", "{", "}", "}">>,
      <<"{", " ", Q, "a", Q, " ", ":", " ", "[", "1", ",", "n", "u", "l", "l", "]", " ", "}">>,
      <<"{", Q, "a", Q, ":", Q, "}", "x", Q, "}">>,
      <<"{", Q, "a", Q, ":", Q>> \o Fence \o <<Q, "}">> }
OtherBodies ==
    { <<>>, <<" ">>, <<"x">>, <<"{">>, <<"n", "u", "l", "l">>, <<"[", "1", "]">>,
      <<"{", "}", " ", "x">>, <<"{", Q, "a", Q, ":", "1", ",", "}">> }

Prefixes ==
    { <<>>, <<" ">>, <<"H", "e", "r", "e", " ", "i", "s", " ">>,
      <<"O", "U", "T", "P", "U", "T", ":", "\n">>, <<"x", "{">>, <<" ", "{">> }
Opens == { <<>>, Fence, Fence \o TagJson, Fence \o TagJson \o <<"\n">> }
Closes == { <<>>, <<"\n">> \o Fence }
Suffixes == { <<>>, <<" ", "x">>, <<"\n", "{", "}">> }

\* prefix, opening fence, body, closing fence, suffix
ComposedTexts ==
    { p \o o \o b \o c \o x :
        p \in Prefixes, o \in Opens, b \in JsonObjects \cup OtherBodies,
        c \in Closes, x \in Suffixes }

Texts == ShortTexts \cup ComposedTexts

-----------------------------------------------------------------------------
(* The parsed values the validator is run on *)

Item(term, rationale) ==
    Obj(SetProp(SetProp(EmptyProps, kTerm, term), kRationale, rationale))
ValidItem == Item(Str(<<"a">>), Str(<<"b", " ", "c">>))
BlankTermItem == Item(Str(<<" ", "\n">>), Str(<<"b">>))
BadItems ==
    { BlankTermItem,
      Item(Str(<<>>), Str(<<"b">>)),
      Item(Str(<<"a">>), Str(<<"\t">>)),
      Item(Num(1), Str(<<"b">>)),
      Obj(SetProp(EmptyProps, kTerm, Str(<<"a">>))),
      Arr(<<Str(<<"a">>), Str(<<"b">>)>>),
      Str(<<"a">>),
      Null }

\* an array of n items, all valid but the one at position pos (0: none)
KeywordArray(n, bad, pos) ==
    Arr([i \in 1..n |-> IF i = pos THEN bad ELSE ValidItem])

\* array lengths around the limits min and max of a category
LengthsAround(min, max) ==
    {n \in ((min - Slack)..(min + Slack)) \cup ((max - Slack)..(max + Slack)) : n >= 0}

\* the object with the given members; an Undefined member is left out
DataObj(primary, secondary, longtail, insights, optKey, optVal) ==
    LET val(k) == CASE k = kPrimary -> primary
                    [] k = kSecondary -> secondary
                    [] k = kLongtail -> longtail
                    [] k = kCompetitorInsights -> insights
                    [] OTHER -> optVal
        keys == {kPrimary, kSecondary, kLongtail, kCompetitorInsights, optKey}
    IN  Obj([k \in {kk \in keys : val(kk).t # "undefined"} |-> val(k)])

GoodInsights == Str(<<"o", "k">>)

\* every combination of lengths around the limits, one blank term in one category
CountCases ==
    { DataObj(KeywordArray(np, BlankTermItem, IF bad = 1 THEN np ELSE 0),
              KeywordArray(ns, BlankTermItem, IF bad = 2 THEN 1 ELSE 0),
              KeywordArray(nl, BlankTermItem, IF bad = 3 THEN nl ELSE 0),
              GoodInsights, kEntities, Undefined) :
        np \in LengthsAround(1, 10), ns \in LengthsAround(2, 20),
        nl \in LengthsAround(3, 30), bad \in 0..3 }

\* every kind of bad item, first or last in each required category
ItemCases ==
    { DataObj(KeywordArray(4, b, IF cat = 1 THEN pos ELSE 0),
              KeywordArray(4, b, IF cat = 2 THEN pos ELSE 0),
              KeywordArray(4, b, IF cat = 3 THEN pos ELSE 0),
              GoodInsights, kEntities, Undefined) :
        b \in BadItems, cat \in 1..3, pos \in {1, 4} }

InsightsValues ==
    { GoodInsights, Str(<<" ">>), Str(<<>>), Undefined, Null, Num(7) }
OptionalValues ==
    { Undefined, Null, Str(<<"x">>), Arr(<<>>),
      KeywordArray(5, ValidItem, 0), KeywordArray(5, BlankTermItem, 2),
      KeywordArray(9, ValidItem, 0) }

\* competitorInsights and one optional category varied, counts at a limit
OptionalCases ==
    { DataObj(KeywordArray(n[1], BlankTermItem, IF bad THEN 1 ELSE 0),
              KeywordArray(n[2], ValidItem, 0),
              KeywordArray(n[3], ValidItem, 0), ci, k, v) :
        n \in { <<1, 2, 3>>, <<10, 20, 30>> }, bad \in BOOLEAN,
        ci \in InsightsValues,
        k \in {kLsiKeywords, kQuestionKeywords, kEntities}, v \in OptionalValues }

\* values that are no keyword object at all (null is reached from a response text)
OddValues ==
    { Num(0), Num(5), Str(<<>>), Str(<<"x">>), Bool(TRUE), Bool(FALSE),
      Arr(<<>>), Arr(<<ValidItem>>), Obj(EmptyProps),
      DataObj(Str(<<"a", "b", "c">>), Null, Num(3), GoodInsights, kEntities, Undefined),
      DataObj(Obj(SetProp(EmptyProps, kLength, Num(5))), KeywordArray(2, ValidItem, 0),
              KeywordArray(3, ValidItem, 0), GoodInsights, kEntities, Undefined) }

\* values a model may supply for the provenance fields
ModelLanguage == Str(<<"k", "l", "i", "n", "g", "o", "n">>)
ModelContentType == Str(<<"S", "p", "a", "m">>)
ModelReferences == Arr(<<Str(<<"e", "v", "i", "l">>)>>)

\* a valid result in which the model supplied none, one or all provenance fields
ProvenanceCases ==
    LET base == DataObj(KeywordArray(1, ValidItem, 0), KeywordArray(2, ValidItem, 0),
                        KeywordArray(3, ValidItem, 0), GoodInsights, kEntities, Undefined)
        with(d, k, v) == IF v.t = "undefined" THEN d ELSE Obj(SetProp(d.v, k, v))
    IN  { with(with(with(base, kDetectedLanguage, l), kContentType, c),
               kSearchReferences, r) :
            l \in {Undefined, ModelLanguage, Str(<<>>)},
            c \in {Undefined, ModelContentType},
            r \in {Undefined, ModelReferences} }

ParsedValues ==
    CountCases \cup ItemCases \cup OptionalCases \cup OddValues \cup ProvenanceCases

-----------------------------------------------------------------------------
(* Specification *)

\* a response text has arrived at both providers' handlers
InitText ==
    /\ responseText \in Texts
    /\ pc = "received"
    /\ opc = "received"
    /\ parsedResult = Undefined
    /\ oparsedResult = Undefined

\* both provider functions after JSON.parse returned the same parsedResult; the
\* text it came from, its strategy and jsonText are not recorded
InitParsed ==
    /\ responseText = <<>>
    /\ pc = "parsed"
    /\ opc = "parsed"
    /\ parsedResult \in ParsedValues
    /\ oparsedResult = parsedResult

Init ==
    /\ InitText \/ InitParsed
    /\ strategy = 0
    /\ jsonText = <<>>
    /\ result = Undefined
    /\ error = NoError
    /\ inner = NoError
    /\ ojsonText = <<>>
    /\ oresult = Undefined
    /\ oerror = NoError
    /\ SelectIdle
    /\ TextIdle
    /\ UiIdle
    /\ RevIdle
    /\ TitleIdle
    /\ ClientIdle

Next ==
    \/ ExtractJson
    \/ CleanAndParse
    \/ ValidateAndReturn
    \/ OpenAIExtractAndParse
    \/ OpenAIValidateAndReturn

Spec == Init /\ [][Next]_vars

-----------------------------------------------------------------------------
(* The documents the container selection is run on *)

\* most candidates (article, main, div with content or post in class or id)
MaxCandidates == 3

\* candidates: className + ' ' + id, block lengths, commas, anchor text, text
CandidateElements ==
    { Element(<<"a", "r", "t", "i", "c", "l", "e", "-", "c", "o", "n", "t", "e", "n", "t", " ">>,
              <<30>>, 0, 0, 100),
      Element(<<"p", "o", "s", "t", " ", "m", "a", "i", "n">>,
              <<25, 20>>, 3, 35, 100),
      Element(<<"c", "o", "n", "t", "e", "n", "t", " ">>,
              <<40, 30>>, 1, 36, 100),
      Element(<<"S", "i", "d", "e", "b", "a", "r", " ", "c", "o", "n", "t", "e", "n", "t">>,
              <<40, 40, 40>>, 2, 0, 200),
      Element(<<"t", "h", "r", "e", "a", "d", "-", "p", "o", "s", "t", " ">>,
              <<40, 40>>, 0, 0, 100),
      Element(<<" ">>,
              <<>>, 0, 0, 0),
      Element(<<"p", "o", "s", "t", "-", "l", "i", "s", "t", " ">>,
              <<40>>, 0, 100, 100),
      Element(<<"c", "o", "n", "t", "e", "n", "t", " ", "P", "O", "S", "T">>,
              <<26>>, 0, 0, 30),
      \* an anchor nested in an anchor (a > table > td > a): its text counts twice
      Element(<<"c", "a", "r", "d", " ">>,
              <<150>>, 0, 300, 150) }

BodyElements ==
    { Element(<<" ">>, <<30>>, 1, 0, 50),
      Element(<<"h", "a", "s", "-", "s", "i", "d", "e", "b", "a", "r", " ">>, <<30>>, 1, 0, 50) }

\* a body with up to MaxCandidates candidates in document order, or a document
\* whose body was removed with all it held (it carried aria-hidden="true")
Documents ==
    { [hasBody |-> TRUE, body |-> b, candidates |-> c] :
        b \in BodyElements,
        c \in UNION {[1..n -> CandidateElements] : n \in 0..MaxCandidates} }
    \cup { [hasBody |-> FALSE, body |-> Element(<<>>, <<>>, 0, 0, 0), candidates |-> <<>>] }

\* the provider functions are not running
ParserIdle ==
    /\ responseText = <<>>
    /\ pc = "idle"
    /\ strategy = 0
    /\ jsonText = <<>>
    /\ parsedResult = Undefined
    /\ result = Undefined
    /\ error = NoError
    /\ inner = NoError
    /\ opc = "idle"
    /\ ojsonText = <<>>
    /\ oparsedResult = Undefined
    /\ oresult = Undefined
    /\ oerror = NoError

\* handleFetchAndGenerate after line 129: the document is parsed and stripped
InitSelect ==
    /\ doc \in Documents
    /\ elementsToScore = <<>>
    /\ bestElement = NullRef
    /\ bestScore = Fraction(-1, 1)
    /\ selectPc = "parsed"
    /\ selectError = NoError
    /\ ParserIdle
    /\ TextIdle
    /\ UiIdle
    /\ RevIdle
    /\ TitleIdle
    /\ ClientIdle

NextSelect == SelectBestContainer

SpecSelect == InitSelect /\ [][NextSelect]_vars

-----------------------------------------------------------------------------
(* The containers and titles the text extraction is run on *)

\* most block elements (p, h1-h6, li, blockquote, pre) in the container
MaxBlocks == 2
\* longest block text enumerated exhaustively
MaxBlockLen == 3

LongLine == [i \in 1..150 |-> "a"]

\* every text of letters and line feeds up to MaxBlockLen characters, and texts
\* with blank lines in them, with carriage returns, and long ones
BlockTexts ==
    UNION {[1..n -> {"a", Newline}] : n \in 0..MaxBlockLen}
    \cup { <<" ", "a", " ">>,
           <<"a", Newline, Newline, Newline, Newline, "b">>,
           <<"a", Newline, " ", Newline, "\t", Newline, " ", "b">>,
           <<"a", "\r", Newline, "\r", Newline, "\r", Newline, "b">>,
           <<"a", "\r", "\r", "b", Newline, "\r", "c">>,
           LongLine \o <<Newline, "\r", Newline, Newline>> \o LongLine }

\* the block elements of a container: a nested block repeats text of its parent
Containers == UNION {[1..n -> BlockTexts] : n \in 0..MaxBlocks}

RECURSIVE textContentOf(_, _)
\* the text of a container whose blocks follow each other on lines of their own
textContentOf(blocks, n) ==
    IF n = 0 THEN <<Newline>>
    ELSE textContentOf(blocks, n - 1) \o <<" ">> \o blocks[n] \o <<Newline>>

\* innerText of the first h1 ("" when there is none), and doc.title, in which
\* the browser has collapsed the white space
H1Texts ==
    { <<>>, <<"T">>, <<" ", "T", Newline>>, <<"T", Newline, "U">>,
      <<"T", Newline, Newline, Newline, "U">>, <<"T", "\r", Newline, "\r", Newline, "U">> }
DocTitles == { <<>>, <<"D", " ", "E">> }

\* handleFetchAndGenerate after line 145: the title is taken and the container
\* is selected
InitExtract ==
    /\ blockTexts \in Containers
    /\ innerText = textContentOf(blockTexts, Len(blockTexts))
    /\ \E h \in H1Texts : \E d \in DocTitles : title = titleOf(h, d)
    /\ content = <<>>
    /\ cleanedContent = <<>>
    /\ fetchedContent = <<>>
    /\ textPc = "selected"
    /\ ParserIdle
    /\ SelectIdle
    /\ UiIdle
    /\ RevIdle
    /\ TitleIdle
    /\ ClientIdle

NextExtract == ExtractContent \/ CombineText

SpecExtract == InitExtract /\ [][NextExtract]_vars

-----------------------------------------------------------------------------
(* The component and the article texts it is run on *)

\* most handler calls followed
MaxRequests == 2

\* the component after mounting: the useState and useRef initial values
InitUi ==
    /\ isLoading = FALSE
    /\ uiError = "null"
    /\ uiResult = 0
    /\ articleContent = <<>>
    /\ abortControllerRef = 0
    /\ requests = [r \in 1..MaxRequests |-> NoRequest]
    /\ llmTexts = <<>>
    /\ ParserIdle
    /\ SelectIdle
    /\ TextIdle
    /\ RevIdle
    /\ TitleIdle
    /\ ClientIdle

NextUi ==
    \/ StartFetch
    \/ StartSubmit
    \/ TypeArticle
    \/ TypeUrl
    \/ \E r \in 1..MaxRequests :
          \/ FetchResponds(r)
          \/ TimeoutFires(r)
          \/ FetchRejects(r)
          \/ BodyArrives(r)
          \/ GenerateSettles(r)

SpecUi == InitUi /\ [][NextUi]_vars

\* every awaited call settles: the fetch answers or fails, the body arrives, an
\* aborted call rejects, generateKeywords resolves or rejects
SpecUiFair ==
    /\ SpecUi
    /\ \A r \in 1..MaxRequests :
          /\ WF_vars(FetchResponds(r))
          /\ WF_vars(FetchRejects(r))
          /\ WF_vars(BodyArrives(r))
          /\ WF_vars(GenerateSettles(r))

-----------------------------------------------------------------------------
(* The parsed values the validator revisions are compared on *)

\* array lengths around the limits of a category in the three revisions
RevisionLengths(k) ==
    CASE k = kPrimary ->
            LengthsAround(3, 5) \cup LengthsAround(2, 5) \cup LengthsAround(1, 10)
      [] k = kSecondary ->
            LengthsAround(8, 12) \cup LengthsAround(5, 12) \cup LengthsAround(2, 20)
      [] k = kLongtail ->
            LengthsAround(10, 15) \cup LengthsAround(8, 20) \cup LengthsAround(3, 30)

\* every combination of those lengths, all items valid
RevisionCountCases ==
    { DataObj(KeywordArray(np, ValidItem, 0), KeywordArray(ns, ValidItem, 0),
              KeywordArray(nl, ValidItem, 0), GoodInsights, kEntities, Undefined) :
        np \in RevisionLengths(kPrimary), ns \in RevisionLengths(kSecondary),
        nl \in RevisionLengths(kLongtail) }

\* counts every revision accepts, with a bad item, a bad competitorInsights or
\* an optional category
RevisionRuleCases ==
    { DataObj(KeywordArray(4, b, IF cat = 1 THEN 4 ELSE 0),
              KeywordArray(10, b, IF cat = 2 THEN 1 ELSE 0),
              KeywordArray(12, b, IF cat = 3 THEN 12 ELSE 0),
              ci, kLsiKeywords, v) :
        b \in BadItems, cat \in 0..3, ci \in InsightsValues,
        v \in {Undefined, Str(<<"x">>)} }

RevisionValues == RevisionCountCases \cup RevisionRuleCases \cup OddValues \cup {Null}

InitRevisions ==
    /\ revData \in RevisionValues
    /\ revVerdict = [fixed |-> "none", flexible |-> "none", current |-> "none"]
    /\ ParserIdle
    /\ SelectIdle
    /\ TextIdle
    /\ UiIdle
    /\ TitleIdle
    /\ ClientIdle

NextRevisions ==
    \/ ValidateFixed
    \/ ValidateFlexible
    \/ ValidateCurrent

SpecRevisions == InitRevisions /\ [][NextRevisions]_vars

-----------------------------------------------------------------------------
(* The documents the title is taken from *)

\* most h1 elements of a document
MaxHeadings == 2

\* an h1 of the fetched document: its text, and whether it lies in an element
\* that line 129 removes (header, nav, aside, ...)
Headings ==
    { [innerText |-> t, inNoise |-> n] :
        t \in { <<>>, <<" ", Newline>>, <<"T">>, <<" ", "U", " ", "V", Newline>> },
        n \in BOOLEAN }

\* doc.title
DocumentTitles == { <<>>, <<"D", " ", "E">> }

\* handleFetchAndGenerate after line 127: the document is parsed
InitTitle ==
    /\ headings \in UNION {[1..n -> Headings] : n \in 0..MaxHeadings}
    /\ documentTitle \in DocumentTitles
    /\ titlePc = "parsed"
    /\ ParserIdle
    /\ SelectIdle
    /\ TextIdle
    /\ UiIdle
    /\ RevIdle
    /\ ClientIdle

NextTitle == TakeTitle

SpecTitle == InitTitle /\ [][NextTitle]_vars

-----------------------------------------------------------------------------
(* The calls the OpenAI client is run on *)

\* line 6: the module has just been loaded
InitClient ==
    /\ openaiClient = NoClient
    /\ clientCalls = <<>>
    /\ ParserIdle
    /\ SelectIdle
    /\ TextIdle
    /\ UiIdle
    /\ RevIdle
    /\ TitleIdle

NextClient == CallOpenAI

SpecClient == InitClient /\ [][NextClient]_vars

-----------------------------------------------------------------------------
(* Vocabulary of the properties, stated on the text and on the values      *)
(* without the operators of the parser and of the validator                *)

\* the response text as generateKeywords sees it
TrimmedText == trim(responseText)

FencePositions(t) == {i \in 1..Len(t) : HasAt(t, i, Fence)}
BracePositions(t, c) == {i \in 1..Len(t) : t[i] = c}

\* where the content of the first fenced block starts: after the opening fence
\* and its json tag
BlockStart(t) ==
    LET open == Min(FencePositions(t))
    IN  IF HasAt(t, open + 3, TagJson) THEN open + 7 ELSE open + 3

\* t holds a fenced block: an opening fence and a closing fence after it
HasBlock(t) ==
    /\ FencePositions(t) # {}
    /\ \E c \in FencePositions(t) : c >= BlockStart(t)

\* the inner content of the first fenced block, surrounding white space removed
BlockContent(t) ==
    LET close == Min({c \in FencePositions(t) : c >= BlockStart(t)})
        inside == SubSeq(t, BlockStart(t), close - 1)
        shown == {i \in 1..Len(inside) : inside[i] \notin {" ", "\n", "\t", "\r"}}
    IN  IF shown = {} THEN <<>> ELSE SubSeq(inside, Min(shown), Max(shown))

Applies1(t) == Len(t) > 0 /\ t[1] = "{"
Applies2(t) == HasBlock(t) /\ BlockContent(t) # <<>>
\* an opening brace with a closing brace somewhere after it
Applies3(t) ==
    \E i \in BracePositions(t, "{") : \E j \in BracePositions(t, "}") : i < j
\* the span from the first opening brace to the last closing brace
BraceSpan(t) == SubSeq(t, Min(BracePositions(t, "{")), Max(BracePositions(t, "}")))

\* a string value with a character that is no white space
NonBlankString(v) ==
    /\ v.t = "string"
    /\ \E i \in 1..Len(v.v) : v.v[i] \notin {" ", "\n", "\t", "\r"}

Member(obj, key) == IF key \in DOMAIN obj.v THEN obj.v[key] ELSE Undefined

\* a KeywordItem: an object whose term and rationale are non-blank strings
GoodItem(item) ==
    /\ item.t = "object"
    /\ NonBlankString(Member(item, kTerm))
    /\ NonBlankString(Member(item, kRationale))

\* a category within its range that holds only KeywordItems
GoodCategory(v, min, max) ==
    /\ v.t = "array"
    /\ min <= Len(v.v) /\ Len(v.v) <= max
    /\ \A i \in 1..Len(v.v) : GoodItem(v.v[i])

RequiredKeys == {kPrimary, kSecondary, kLongtail}
OptionalKeys == {kLsiKeywords, kQuestionKeywords, kEntities}
MinOf(k) == CASE k = kPrimary -> 1 [] k = kSecondary -> 2 [] k = kLongtail -> 3
              [] k = kEntities -> 1 [] OTHER -> 5
MaxOf(k) == CASE k = kPrimary -> 10 [] k = kSecondary -> 20 [] k = kLongtail -> 30
              [] k = kEntities -> 50 [] OTHER -> 8

\* generateKeywords validated parsedResult and has returned or thrown
Validated == pc \in {"returned", "thrown"} /\ parsedResult # Undefined
Accepted == pc = "returned"

\* the parsed value is an object whose three required members are arrays and
\* whose competitorInsights is a non-blank string
KeywordShaped(d) ==
    /\ d.t = "object"
    /\ \A k \in RequiredKeys : Member(d, k).t = "array"
    /\ NonBlankString(Member(d, kCompetitorInsights))

-----------------------------------------------------------------------------
(* C1 - C10 *)

\* C1: the candidate is chosen by the first strategy that applies, in the order
\* (1) trimmed text starts with a brace: the whole trimmed text, (2) a fenced
\* block (with content): its inner content, (3) the span from the first opening
\* to the last closing brace, (4) a brace span after a conversational prefix;
\* when none applies the call fails with the no-JSON-found error.
C1_FirstApplicableStrategy ==
    LET t == TrimmedText
    IN  /\ pc = "extracted" =>
              /\ strategy \in 1..4
              /\ strategy = 1 <=> Applies1(t)
              /\ strategy = 2 <=> (~Applies1(t) /\ Applies2(t))
              /\ strategy = 3 <=> (~Applies1(t) /\ ~Applies2(t) /\ Applies3(t))
              /\ strategy = 1 => jsonText = t
              /\ strategy = 2 => jsonText = BlockContent(t)
              /\ strategy \in {3, 4} => jsonText = BraceSpan(t)
        /\ (pc # "received" /\ Len(t) > 0) =>
              ((~Applies1(t) /\ ~Applies2(t) /\ ~Applies3(t))
                  <=> (pc = "thrown" /\ inner.message = MsgNoJson))

\* C1 witness: strategy 2 was taken for a text on which strategy 3 applies too
C1_Witness ==
    /\ pc = "extracted"
    /\ strategy = 2
    /\ Applies3(TrimmedText)
    /\ jsonText # BraceSpan(TrimmedText)

\* C2: a response that is a valid JSON object with nothing around it but white
\* space is handed unchanged to JSON.parse, which recovers JSON.parse of it.
C2_PureObjectRoundTrip ==
    LET whole == JSONParse(responseText)
    IN  (whole.ok /\ whole.val.t = "object") =>
            /\ pc = "extracted" => (strategy = 1 /\ jsonText = TrimmedText)
            /\ pc \in {"parsed", "returned", "thrown"} =>
                  /\ jsonText = TrimmedText
                  /\ parsedResult = whole.val

\* C2 witness: an object with a nested object, white space around it, was parsed
C2_Witness ==
    /\ pc = "parsed"
    /\ JSONParse(responseText).ok
    /\ parsedResult.t = "object"
    /\ parsedResult.v # EmptyProps
    /\ responseText # TrimmedText

\* the response wraps the object text o in a fenced block, tagged json or not,
\* after conversational text that does not start with a brace
Wraps(text, o) ==
    \E p \in {x \in Prefixes : ~Applies1(trim(x))} :
    \E tag \in {<<>>, TagJson} :
    \E w \in {<<>>, <<"\n">>} :
        text = p \o Fence \o tag \o w \o o \o <<"\n">> \o Fence

\* C3: wrapping a valid JSON object in a fenced block, with or without the json
\* tag, makes the parser recover the same object as for the unwrapped text.
C3_FencedSameAsUnwrapped ==
    \A o \in JsonObjects :
        (Wraps(responseText, o) /\ pc \in {"parsed", "returned", "thrown"}) =>
            parsedResult = JSONParse(o).val

\* C4: a required category is accepted exactly when its length lies in
\* [min, max] (primary 1-10, secondary 2-20, longtail 3-30) and all its items
\* are valid; min and max are accepted, min-1 and max+1 rejected.
C4_RangeInclusive ==
    (Validated /\ KeywordShaped(parsedResult)) =>
        (Accepted <=>
            \A k \in RequiredKeys :
                GoodCategory(Member(parsedResult, k), MinOf(k), MaxOf(k)))

\* C4 witness: accepted with primary at its minimum, the others at their maximum
C4_Witness ==
    /\ Accepted
    /\ Len(Member(parsedResult, kPrimary).v) = 1
    /\ Len(Member(parsedResult, kSecondary).v) = 20
    /\ Len(Member(parsedResult, kLongtail).v) = 30

\* an item of the array v has a term that is an empty or all-white-space string
HasBlankTerm(v) ==
    /\ v.t = "array"
    /\ \E i \in 1..Len(v.v) :
          /\ v.v[i].t = "object"
          /\ Member(v.v[i], kTerm).t = "string"
          /\ ~NonBlankString(Member(v.v[i], kTerm))

\* C5 as stated: in an accepted result every item of every category, the
\* optional ones included, has non-blank term and rationale, and a blank term
\* anywhere rejects the result.
C5_EveryCategoryItemValid ==
    Validated =>
        /\ Accepted =>
              \A k \in RequiredKeys \cup OptionalKeys :
                  Member(parsedResult, k).t = "array" =>
                      \A i \in 1..Len(Member(parsedResult, k).v) :
                          GoodItem(Member(parsedResult, k).v[i])
        /\ (parsedResult.t = "object" /\
            \E k \in RequiredKeys \cup OptionalKeys : HasBlankTerm(Member(parsedResult, k)))
              => ~Accepted

\* C5 amended: in an accepted result every item of every required category
\* (primary, secondary, longtail) has non-blank term and rationale, and a blank
\* term in a required category rejects the result.
C5_RequiredCategoryItemValid ==
    Validated =>
        /\ Accepted =>
              \A k \in RequiredKeys :
                  /\ Member(parsedResult, k).t = "array"
                  /\ \A i \in 1..Len(Member(parsedResult, k).v) :
                        GoodItem(Member(parsedResult, k).v[i])
        /\ (parsedResult.t = "object" /\
            \E k \in RequiredKeys : HasBlankTerm(Member(parsedResult, k)))
              => ~Accepted

\* C5 witness: rejected for one blank term, everything else being valid
C5_Witness ==
    /\ Validated
    /\ ~Accepted
    /\ KeywordShaped(parsedResult)
    /\ \A k \in RequiredKeys :
          /\ MinOf(k) <= Len(Member(parsedResult, k).v)
          /\ Len(Member(parsedResult, k).v) <= MaxOf(k)
    /\ HasBlankTerm(Member(parsedResult, kLongtail))

\* an optional category that is present but invalid
InvalidOptional(d, k) ==
    /\ Member(d, k).t \notin {"undefined", "null"}
    /\ ~GoodCategory(Member(d, k), MinOf(k), MaxOf(k))

\* C6: an optional category that is present but invalid is dropped: it is absent
\* from the result generateKeywords returns.
C6_InvalidOptionalDropped ==
    Accepted =>
        \A k \in OptionalKeys :
            InvalidOptional(parsedResult, k) => k \notin DOMAIN result.v

\* C7: generateKeywords either returns an object whose required categories are
\* arrays within range holding only valid items and whose competitorInsights is
\* a non-blank string, or throws an Error; never both, never an unvalidated one.
C7_ValidatedOrError ==
    /\ pc \in {"received", "extracted", "parsed"} =>
          (result = Undefined /\ error = NoError)
    /\ pc = "returned" =>
          /\ error = NoError
          /\ result.t = "object"
          /\ \A k \in RequiredKeys :
                GoodCategory(Member(result, k), MinOf(k), MaxOf(k))
          /\ NonBlankString(Member(result, kCompetitorInsights))
    /\ pc = "thrown" =>
          /\ result = Undefined
          /\ error.name = "Error"

\* C7 witness: a result was returned that carries an optional category
C7_Witness ==
    /\ pc = "returned"
    /\ kQuestionKeywords \in DOMAIN result.v
    /\ Len(Member(result, kPrimary).v) = 10

\* C8: when no JSON is found or JSON.parse fails, the error that reaches the
\* caller carries the preview of the text and suggests Deep Analysis mode.
C8_PreviewReachesCaller ==
    (pc = "thrown" /\ inner.message \in {MsgNoJson, MsgParseFailed}) =>
        /\ includes(error.message, "Deep Analysis")
        /\ inner.message = MsgNoJson =>
              error.args = <<substring(TrimmedText, 0, PreviewLen)>>

\* the counts the validation error reports for the value d
ReceivedCount(d, k) ==
    IF Member(d, k).t \in {"array", "string"} THEN Num(Len(Member(d, k).v)) ELSE Num(0)

\* C9: whenever validateKeywordResult rejects a parsed value (null, number,
\* string and array included) the caller gets the validation error with the
\* expected ranges, which are those enforced, and the received counts.
C9_ValidationErrorReachesCaller ==
    (Validated /\ pc = "thrown") =>
        /\ error.message = MsgInvalidCounts
        /\ MsgInvalidCountsRanges =
              << <<MinOf(kPrimary), MaxOf(kPrimary)>>,
                 <<MinOf(kSecondary), MaxOf(kSecondary)>>,
                 <<MinOf(kLongtail), MaxOf(kLongtail)>> >>
        /\ parsedResult.t = "object" /\ KeywordShaped(parsedResult) =>
              error.args = << ReceivedCount(parsedResult, kPrimary),
                              ReceivedCount(parsedResult, kSecondary),
                              ReceivedCount(parsedResult, kLongtail) >>

\* C10: both providers derive the same candidate from a response text and reach
\* the same parse outcome: the same parsed value, or a failure in both.
C10_SameParserBothProviders ==
    (pc \in {"parsed", "returned", "thrown"} /\ opc \in {"parsed", "returned", "thrown"}) =>
        /\ (parsedResult # Undefined) <=> (oparsedResult # Undefined)
        /\ oparsedResult # Undefined => oparsedResult = parsedResult

-----------------------------------------------------------------------------
(* C11 - C20 *)

ProvenanceKeys == {kDetectedLanguage, kContentType, kSearchReferences}
CallerValue(k) ==
    CASE k = kDetectedLanguage -> CallerDetectedLanguage
      [] k = kContentType -> CallerContentType
      [] k = kSearchReferences -> CallerGroundingChunks

\* C11: in every returned result detectedLanguage, contentType and
\* searchReferences are the values the caller computed, never values the model
\* put into its JSON, on the Gemini path and on the OpenAI path (which has no
\* grounding metadata and may leave a field out).
C11_ProvenanceFromCaller ==
    /\ pc = "returned" =>
          \A k \in ProvenanceKeys : Member(result, k) = CallerValue(k)
    /\ opc = "returned" =>
          \A k \in ProvenanceKeys : Member(oresult, k) \in {CallerValue(k), Undefined}

\* the lower-cased class+id string of e holds a word of the noise vocabulary
MatchesNoiseVocabulary(e) ==
    LET low == toLowerCase(e.classAndId)
    IN  \E w \in 1..Len(NoiseWords) :
            \E i \in 1..Len(low) : HasAt(low, i, NoiseWords[w])

CandidateIndexes == 1..Len(doc.candidates)
ScoreOf(i) == calculateScore(doc.candidates[i])

\* C12: a candidate that matches the noise vocabulary scores exactly -100,
\* below the initial best score -1 and below every candidate that does not
\* match, and it is never the container selected when a candidate that does not
\* match exists.
C12_NoiseNeverSelected ==
    selectPc \in {"selected", "thrown"} =>
        /\ \A i \in CandidateIndexes :
              MatchesNoiseVocabulary(doc.candidates[i]) =>
                  /\ ScoreOf(i) = Fraction(-100, 1)
                  /\ Greater(Fraction(-1, 1), ScoreOf(i))
                  /\ \A j \in CandidateIndexes :
                        ~MatchesNoiseVocabulary(doc.candidates[j]) =>
                            Greater(ScoreOf(j), ScoreOf(i))
        /\ (\E j \in CandidateIndexes : ~MatchesNoiseVocabulary(doc.candidates[j])) =>
              /\ selectPc = "selected"
              /\ bestElement.kind = "candidate" =>
                    ~MatchesNoiseVocabulary(doc.candidates[bestElement.idx])

\* C12 witness: a candidate whose class is noise only after lower-casing comes
\* first and holds more text than the candidate selected
C12_Witness ==
    /\ selectPc = "selected"
    /\ bestElement.kind = "candidate"
    /\ bestElement.idx > 1
    /\ MatchesNoiseVocabulary(doc.candidates[1])
    /\ ~noiseTest(doc.candidates[1].classAndId)
    /\ SumOver(doc.candidates[1].blocks, Len(doc.candidates[1].blocks))
          > SumOver(doc.candidates[bestElement.idx].blocks,
                    Len(doc.candidates[bestElement.idx].blocks))

\* C13: the selection returns the candidate with the strictly highest score,
\* the first in document order among equal scores; it returns the document body
\* when there are no candidates or none scores above -1; a container is always
\* selected.
C13_HighestScoreOrBody ==
    selectPc # "parsed" =>
        /\ selectPc = "selected"
        /\ bestElement.kind \in {"body", "candidate"}
        /\ bestElement.kind = "candidate" =>
              /\ Greater(ScoreOf(bestElement.idx), Fraction(-1, 1))
              /\ \A j \in CandidateIndexes : ~Greater(ScoreOf(j), ScoreOf(bestElement.idx))
              /\ \A j \in 1..(bestElement.idx - 1) :
                    Greater(ScoreOf(bestElement.idx), ScoreOf(j))
        /\ bestElement.kind = "body" <=>
              \A j \in CandidateIndexes : ~Greater(ScoreOf(j), Fraction(-1, 1))

\* s holds three line feeds in a row
HasThreeLineFeeds(s) ==
    \E i \in 1..(Len(s) - 2) : s[i] = "\n" /\ s[i + 1] = "\n" /\ s[i + 2] = "\n"

\* s starts or ends with a white-space character
HasOuterWhiteSpace(s) ==
    Len(s) > 0 /\ (s[1] \in {" ", "\n", "\t", "\r"} \/ s[Len(s)] \in {" ", "\n", "\t", "\r"})

\* C14: for every container, also when its block elements hold blank lines or
\* are nested, the string extractCleanText returns has no run of three or more
\* consecutive newline characters and no leading or trailing white space.
C14_NoTripleNewline ==
    textPc = "extracted" =>
        /\ ~HasThreeLineFeeds(content)
        /\ ~HasOuterWhiteSpace(content)

\* C14 witness: a block with blank lines in it, nested in a block that repeats
\* its text, was extracted
C14_Witness ==
    /\ textPc = "extracted"
    /\ Len(blockTexts) = 2
    /\ blockTexts[1] = blockTexts[2]
    /\ HasThreeLineFeeds(trim(blockTexts[1]))
    /\ Len(content) > Len(trim(blockTexts[1]))

\* the newline sequences (\r\n, \n or \r) of the run of \r and \n characters
\* s[i..j], a \r\n pair being one sequence
NewlineSequences(s, i, j) ==
    (j - i + 1) - Cardinality({k \in i..(j - 1) : s[k] = "\r" /\ s[k + 1] = "\n"})

\* s holds a run of three or more newline sequences
HasThreeNewlineSequences(s) ==
    \E i \in 1..Len(s) : \E j \in i..Len(s) :
        /\ \A k \in i..j : s[k] \in {"\r", "\n"}
        /\ NewlineSequences(s, i, j) >= 3

\* C15: the combined text is title, a blank line and body with every run of
\* three or more newline sequences collapsed to two: the text passed on holds
\* no run of three or more newline sequences, whatever title and body hold.
C15_NoTripleNewlineSequence ==
    textPc = "combined" => ~HasThreeNewlineSequences(fetchedContent)

\* the article fetch of request r is under way: its response or its body has
\* not arrived and it was not cancelled
FetchInFlight(r) == requests[r].net \in {"headers", "body"}

\* request r went on after the start of its handler: every call of
\* handleFetchAndGenerate, and the calls of handleSubmit that set isLoading
Proceeded(r) ==
    \/ requests[r].kind = "fetch"
    \/ requests[r].kind = "submit" /\ requests[r].outcome # "tooShort"

\* C16: generateKeywords is called only with texts of trimmed length 500 or
\* more: a request whose text is shorter ends with the too-short error and
\* without a call, and a request whose text has trimmed length 500 or more
\* makes the call.
C16_NoShortTextToLLM ==
    /\ \A i \in 1..Len(llmTexts) : Len(trim(llmTexts[i])) >= 500
    /\ \A r \in 1..MaxRequests :
         requests[r].text # <<>> =>
           IF Len(trim(requests[r].text)) < 500
           THEN /\ requests[r].outcome = "tooShort"
                /\ requests[r].rpc = "done"
                /\ \A i \in 1..Len(llmTexts) : llmTexts[i] # requests[r].text
           ELSE /\ requests[r].outcome \in {"called", "result", "generateError"}
                /\ \E i \in 1..Len(llmTexts) : llmTexts[i] = requests[r].text

\* a URL request was refused for 499 characters after trimming and a submit
\* of exactly 500 characters after trimming was passed on
C16_Witness ==
    \E r, q \in 1..MaxRequests :
        /\ requests[r].kind = "fetch"
        /\ requests[r].outcome = "tooShort"
        /\ Len(requests[r].text) >= 500
        /\ requests[q].kind = "submit"
        /\ Len(trim(requests[q].text)) = 500
        /\ Len(llmTexts) = 1

\* C17: once a new request has gone on, the article fetch of every earlier
\* request is finished or aborted, and at most one fetch that is not
\* aborted is under way.
C17_EarlierFetchAborted ==
    /\ \A r, q \in 1..MaxRequests :
         (r < q /\ Proceeded(q)) => ~(FetchInFlight(r) /\ ~requests[r].aborted)
    /\ Cardinality({r \in 1..MaxRequests :
                        FetchInFlight(r) /\ ~requests[r].aborted}) <= 1

\* C18: while a request waits for the response or for the body of its
\* fetch the timer is armed, and a request whose timer fired ends with the
\* timed-out error and isLoading false.
C18_TimeoutCoversRetrieval ==
    \A r \in 1..MaxRequests :
        /\ (requests[r].rpc \in {"awaitFetch", "awaitText"} /\ FetchInFlight(r))
              => requests[r].timer = "armed"
        /\ (requests[r].timer = "fired" /\ requests[r].rpc = "done")
              => requests[r].outcome = "timedOut"
        /\ (requests[r].timer = "fired" /\ requests[r].rpc = "done"
              /\ \A q \in 1..MaxRequests : q > r => requests[q].kind = "none")
              => (~isLoading /\ uiError = MsgTimedOut)

\* s holds a closing brace and does not end with one
BraceNotLast(s) == (\E j \in 1..Len(s) : s[j] = "}") /\ s[Len(s)] # "}"

\* C19: the text handed to JSON.parse ends with its last closing brace, if it
\* has one, in generateKeywords and in generateKeywordsWithOpenAI.
C19_ParsedTextEndsWithBrace ==
    /\ pc \in {"parsed", "returned", "thrown"} => ~BraceNotLast(jsonText)
    /\ opc \in {"parsed", "returned", "thrown"} => ~BraceNotLast(ojsonText)

\* C20: validateKeywordResult accepts exactly the objects whose primary,
\* secondary and longtail are arrays within their ranges holding only valid
\* items and whose competitorInsights is a non-blank string; a value that is
\* no object, and an array, is rejected; no other member of the object
\* enters the verdict.
C20_ValidIffRequiredFieldsValid ==
    Validated =>
        /\ Accepted <=>
              /\ parsedResult.t = "object"
              /\ \A k \in RequiredKeys :
                    GoodCategory(Member(parsedResult, k), MinOf(k), MaxOf(k))
              /\ NonBlankString(Member(parsedResult, kCompetitorInsights))
        /\ parsedResult.t # "object" => ~Accepted

\* C20 witness: a top-level array of valid items was rejected
C20_Witness ==
    /\ Validated
    /\ ~Accepted
    /\ parsedResult.t = "array"
    /\ Len(parsedResult.v) > 0
    /\ \A i \in 1..Len(parsedResult.v) : GoodItem(parsedResult.v[i])

-----------------------------------------------------------------------------
(* C21 - C30 *)

\* the value d passes the validation step: an object whose required
\* categories are valid and whose competitorInsights is a non-blank string
PassesValidation(d) ==
    /\ d.t = "object"
    /\ \A k \in RequiredKeys : GoodCategory(Member(d, k), MinOf(k), MaxOf(k))
    /\ NonBlankString(Member(d, kCompetitorInsights))

\* generateKeywordsWithOpenAI validated oparsedResult and has returned or thrown
OpenAIValidated == opc \in {"returned", "thrown"} /\ oparsedResult # Undefined

InEveryRange(d) ==
    /\ d.t = "object"
    /\ \A k \in RequiredKeys : Member(d, k).t = "array"
    /\ Len(Member(d, kPrimary).v) \in 3..5
    /\ Len(Member(d, kSecondary).v) \in 8..12
    /\ Len(Member(d, kLongtail).v) \in 10..15

\* C22: what the revision with ranges 3-5, 8-12, 10-15 accepts the one with
\* 2-5, 5-12, 8-20 accepts, and what that one accepts the one with 1-10, 2-20,
\* 3-30 accepts; on counts that lie in every range the three verdicts are the
\* same, whatever the items and competitorInsights are.
C22_RevisionsNested ==
    /\ (revVerdict.fixed = "valid" /\ revVerdict.flexible # "none")
          => revVerdict.flexible = "valid"
    /\ (revVerdict.flexible = "valid" /\ revVerdict.current # "none")
          => revVerdict.current = "valid"
    /\ (InEveryRange(revData) /\ revVerdict.fixed # "none"
          /\ revVerdict.flexible # "none" /\ revVerdict.current # "none")
          => (revVerdict.fixed = revVerdict.flexible
                /\ revVerdict.flexible = revVerdict.current)

\* C22 witness: five primary keywords, accepted by all three revisions, and
\* the counts are at limits of the strictest one
C22_Witness ==
    /\ revVerdict = [fixed |-> "valid", flexible |-> "valid", current |-> "valid"]
    /\ Len(Member(revData, kPrimary).v) = 5
    /\ Len(Member(revData, kSecondary).v) = 8
    /\ Len(Member(revData, kLongtail).v) = 15

\* equality of fractions
SameFraction(a, b) == a[1] * b[2] = b[1] * a[2]

\* the score before the link-density penalty: the blocks longer than 25 and
\* ten per comma
UnpenalisedScore(e) ==
    SumOver([i \in 1..Len(e.blocks) |-> IF e.blocks[i] >= 26 THEN e.blocks[i] ELSE 0],
            Len(e.blocks))
    + 10 * e.commas

\* linkDensity as a fraction: anchor text length / max(total text length, 1)
LinkDensity(e) ==
    Fraction(e.linkTextLength, IF e.totalTextLength > 1 THEN e.totalTextLength ELSE 1)

\* the score the claim gives an element that is no noise
StatedScore(e) ==
    LET d == LinkDensity(e)
    IN  IF Greater(d, Fraction(35, 100))
        THEN Fraction(UnpenalisedScore(e) * (d[2] - d[1]), d[2])
        ELSE Fraction(UnpenalisedScore(e), 1)

\* C23: for a candidate that is no noise calculateScore is the sum of its
\* blocks longer than 25 plus ten per comma, times (1 - linkDensity) exactly
\* when linkDensity > 0.35; it is never negative and never above the
\* unpenalised score; the best score kept by the selection is that score of
\* the element selected.
C23_ScoreFormula ==
    selectPc = "selected" =>
        /\ \A i \in CandidateIndexes :
              ~MatchesNoiseVocabulary(doc.candidates[i]) =>
                  /\ SameFraction(ScoreOf(i), StatedScore(doc.candidates[i]))
                  /\ ~Greater(Fraction(0, 1), ScoreOf(i))
                  /\ ~Greater(ScoreOf(i), Fraction(UnpenalisedScore(doc.candidates[i]), 1))
        /\ bestElement.kind = "candidate" =>
              SameFraction(bestScore, StatedScore(doc.candidates[bestElement.idx]))

\* C23 witness: the element selected has a link density of exactly 0.35 and
\* a block of exactly 25 characters, and it beat an element that was penalised
C23_Witness ==
    /\ selectPc = "selected"
    /\ bestElement.kind = "candidate"
    /\ LET e == doc.candidates[bestElement.idx]
       IN  /\ SameFraction(LinkDensity(e), Fraction(35, 100))
           /\ \E i \in 1..Len(e.blocks) : e.blocks[i] = 25
           /\ bestScore = Fraction(UnpenalisedScore(e), 1)
    /\ \E j \in CandidateIndexes :
          /\ ~MatchesNoiseVocabulary(doc.candidates[j])
          /\ Greater(LinkDensity(doc.candidates[j]), Fraction(35, 100))
          /\ Greater(Fraction(UnpenalisedScore(doc.candidates[j]), 1), ScoreOf(j))

\* the h1 elements that line 129 leaves in the document
RemainingHeadings == SelectSeq(headings, LAMBDA h : ~h.inNoise)

IsBlank(s) == \A i \in 1..Len(s) : IsWs(s[i])

\* C24: the title is the trimmed text of the first h1 left after the noise
\* elements were removed when that h1 has text, else the trimmed doc.title; an
\* h1 inside a removed element never gives the title; the title is not empty
\* when doc.title is not blank and no h1 that is left has text other than
\* white space.
C24_TitleFromFirstHeading ==
    titlePc = "taken" =>
        /\ title = IF Len(RemainingHeadings) > 0 /\ Len(RemainingHeadings[1].innerText) > 0
                   THEN trim(RemainingHeadings[1].innerText)
                   ELSE trim(documentTitle)
        /\ (~IsBlank(documentTitle)
              /\ \A i \in 1..Len(RemainingHeadings) : IsBlank(RemainingHeadings[i].innerText))
              => Len(title) > 0

\* C25: strategy 4 never gives the candidate: where its pattern matches, the
\* pattern of strategy 3 matches too; and a response that reaches the
\* extraction fails with the no-JSON-found error exactly when its trimmed text
\* does not start with a brace, holds no fenced block with content and holds
\* no opening brace with a closing brace after it.
C25_Strategy4NeverNeeded ==
    LET t == TrimmedText
    IN  /\ strategy # 4
        /\ (afterPrefixMatch(t).found /\ Len(afterPrefixMatch(t).g1) > 0)
              => objectMatch(t).found
        /\ (pc # "received" /\ Len(t) > 0) =>
              ((pc = "thrown" /\ strategy = 0 /\ inner.message = MsgNoJson)
                  <=> /\ t[1] # "{"
                      /\ ~(HasBlock(t) /\ BlockContent(t) # <<>>)
                      /\ \A i \in 1..Len(t) : \A j \in 1..Len(t) :
                            (t[i] = "{" /\ t[j] = "}") => j < i)

\* C25 witness: a text with a closing brace before its opening brace and an
\* empty fenced block failed with the no-JSON-found error
C25_Witness ==
    /\ pc = "thrown"
    /\ inner.message = MsgNoJson
    /\ \E i \in 1..Len(TrimmedText) : \E j \in 1..Len(TrimmedText) :
          TrimmedText[i] = "}" /\ TrimmedText[j] = "{" /\ i < j

\* C26: in every reachable state of the component error and result are not both
\* set: when a handler sets an error message no result of an earlier request is
\* still held for display
C26_ErrorAndResultExclusive ==
    ~(uiError # "null" /\ uiResult # 0)

\* request r is waiting for a call it awaits
Pending(r) == requests[r].rpc \in {"awaitFetch", "awaitText", "awaitLLM"}

\* C27: every request that set isLoading to true sets it back to false when the
\* calls it awaits settle, however it ends, and at its end exactly one of result
\* and error is set and it is that request that set it
C27_LoadingEndsWithOneOutcome ==
    /\ \A r \in 1..MaxRequests : Pending(r) ~> (requests[r].rpc = "done")
    /\ isLoading ~> ~isLoading
    /\ [][\A r \in 1..MaxRequests :
            (requests[r].rpc # "done" /\ requests'[r].rpc = "done" /\ Proceeded(r)')
            => /\ ~isLoading'
               /\ uiResult' \in {0, r}
               /\ (uiResult' = r) # (uiError' # "null")
               /\ (uiResult' = r) <=> (requests'[r].outcome = "result")]_vars

C27_Witness ==
    /\ ~isLoading
    /\ \E r, s \in 1..MaxRequests :
          /\ requests[r].outcome = "timedOut" /\ requests[r].rpc = "done"
          /\ requests[s].outcome = "result" /\ requests[s].rpc = "done"
          /\ uiResult = s /\ uiError = "null"

\* the most recently started request that set isLoading, 0 when there is none
LatestProceeded ==
    LET S == {r \in 1..MaxRequests : Proceeded(r)}
    IN  IF S = {} THEN 0 ELSE CHOOSE r \in S : \A q \in S : q <= r

\* C28: a request that a newer request has superseded changes none of result,
\* error, articleContent and isLoading once the newer one has started; the result
\* on display is that of the most recently started request and isLoading is
\* true as long as that request is pending
C28_SupersededRequestIsSilent ==
    /\ [][\A r \in 1..MaxRequests :
            (/\ r < started(requests)
             /\ started(requests') = started(requests)
             /\ requests'[r] # requests[r])
            => UNCHANGED <<uiResult, uiError, articleContent, isLoading>>]_vars
    /\ [](uiResult \in {0, LatestProceeded})
    /\ [](\A r \in 1..MaxRequests :
            Pending(r) => (isLoading /\ r = started(requests)))

\* the body of a superseded request finished arriving while the newer request
\* was pending, and the newer request went on to set its result
C28_Witness ==
    \E r, q \in 1..MaxRequests :
        /\ r < q
        /\ requests[r].outcome = "httpError" /\ requests[r].net = "done"
        /\ requests[q].kind = "submit" /\ requests[q].outcome = "result"
        /\ uiResult = q /\ uiError = "null" /\ ~isLoading

\* C29: the client a call of generateKeywordsWithOpenAI uses was constructed
\* with the apiKey argument of that call, and a call with an empty or blank key
\* fails with the error of the missing key and leaves the client as it was
C29_ClientUsesCallKey ==
    \A i \in 1..Len(clientCalls) :
        LET call == clientCalls[i]
        IN  IF keyMissing(call.apiKey)
            THEN ~call.usedClient /\ call.error # NoError
            ELSE call.usedClient /\ call.clientKey = call.apiKey

\* C30: when a request of handleFetchAndGenerate ends, articleContent is the
\* empty string if the request failed before its text was extracted and
\* accepted, and otherwise exactly the fetched text, whose trimmed length is at
\* least 500, whether generation succeeded or not; it is never the text the
\* text area held before the request
C30_ContentAfterFetchRequest ==
    [][\A r \in 1..MaxRequests :
          (/\ requests[r].rpc # "done"
           /\ requests'[r].rpc = "done"
           /\ requests'[r].kind = "fetch")
          => IF requests'[r].outcome \in {"result", "generateError"}
             THEN /\ articleContent' = requests'[r].text
                  /\ Len(trim(articleContent')) >= 500
             ELSE /\ requests'[r].outcome \in
                        {"invalidUrl", "httpError", "networkError", "timedOut", "tooShort"}
                  /\ articleContent' = <<>>]_vars

\* a text was submitted from the text area, then a URL request failed on the
\* status of its response and left the text area empty
C30_Witness ==
    \E r, q \in 1..MaxRequests :
        /\ r < q
        /\ requests[r].kind = "submit" /\ Len(requests[r].text) >= 500
        /\ requests[q].kind = "fetch" /\ requests[q].outcome = "httpError"
        /\ requests[q].rpc = "done"
        /\ articleContent = <<>>

====
